---- MODULE Spec2Model ----
(***************************************************************************)
(* A model of minhttp: the HTTP/1.1 message decoder and encoder            *)
(* (src/http/message.rs, request.rs, response.rs), the reader and writer   *)
(* adapters (reader.rs, writer.rs) and the connection loop                 *)
(* handle_connection with its response policy (main.rs).                   *)
(*                                                                         *)
(* A byte is a one-character string, a byte string or a Rust String is a   *)
(* sequence of bytes.  "xFF" stands for a byte that is not valid UTF-8.    *)
(***************************************************************************)
EXTENDS Integers, Sequences, FiniteSets, TLC

CR == "\r"
LF == "\n"
SP == " "
XFF == "xFF"

(***************************************************************************)
(* String helpers: what the std / tokio calls used by the code compute.    *)
(***************************************************************************)

\* position of the first c in s at or after from, 0 when there is none
IndexOf(s, c, from) ==
    IF \E i \in from..Len(s) : s[i] = c
    THEN CHOOSE i \in from..Len(s) : s[i] = c /\ \A j \in from..(i - 1) : s[j] # c
    ELSE 0

Skip(s, n) == SubSeq(s, n + 1, Len(s))

RECURSIVE Concat(_)
Concat(ss) == IF ss = <<>> THEN <<>> ELSE Head(ss) \o Concat(Tail(ss))

\* tokio Lines::next_line on a buffered reader holding buf, the peer having
\* closed behind it: read up to and including the first "\n" (or to the end of
\* the stream), fail on bytes that are not UTF-8, give None when nothing was
\* read, else drop the "\n" and, only then, one "\r" before it.
NextLine(buf) ==
    LET i    == IndexOf(buf, LF, 1)
        raw  == IF i = 0 THEN buf ELSE SubSeq(buf, 1, i)
        rest == IF i = 0 THEN <<>> ELSE Skip(buf, i)
        nolf == IF i = 0 THEN raw ELSE SubSeq(raw, 1, Len(raw) - 1)
        line == IF i # 0 /\ nolf # <<>> /\ nolf[Len(nolf)] = CR
                THEN SubSeq(nolf, 1, Len(nolf) - 1)
                ELSE nolf
    IN  IF \E k \in 1..Len(raw) : raw[k] = XFF
        THEN [tag |-> "Err", line |-> <<>>, rest |-> rest]
        ELSE IF raw = <<>>
        THEN [tag |-> "None", line |-> <<>>, rest |-> rest]
        ELSE [tag |-> "Some", line |-> line, rest |-> rest]

\* str::split(' ') collected: every field, however many
RECURSIVE SplitAll(_)
SplitAll(s) ==
    LET i == IndexOf(s, SP, 1)
    IN  IF i = 0 THEN <<s>> ELSE <<SubSeq(s, 1, i - 1)>> \o SplitAll(Skip(s, i))

\* str::splitn(3, ' ') collected: at most three parts, the third keeps the rest
SplitN3(s) ==
    LET i == IndexOf(s, SP, 1)
    IN  IF i = 0 THEN <<s>>
        ELSE LET t == Skip(s, i)
                 j == IndexOf(t, SP, 1)
             IN  IF j = 0 THEN <<SubSeq(s, 1, i - 1), t>>
                 ELSE <<SubSeq(s, 1, i - 1), SubSeq(t, 1, j - 1), Skip(t, j)>>

\* str::split_once(": "), a plausible slip: split at the last colon-space
SplitOnceLast(line) ==
    LET P == {i \in 1..(Len(line) - 1) : line[i] = ":" /\ line[i + 1] = SP}
    IN  IF P = {} THEN [ok |-> FALSE, left |-> <<>>, right |-> <<>>]
        ELSE LET i == CHOOSE p \in P : \A q \in P : q <= p
             IN  [ok |-> TRUE, left |-> SubSeq(line, 1, i - 1), right |-> Skip(line, i + 1)]

\* str::split_once(": "): split at the first colon-space
SplitOnce(line) ==
    LET P == {i \in 1..(Len(line) - 1) : line[i] = ":" /\ line[i + 1] = SP}
    IN  IF P = {} THEN [ok |-> FALSE, left |-> <<>>, right |-> <<>>]
        ELSE LET i == CHOOSE p \in P : \A q \in P : p <= q
             IN  [ok |-> TRUE, left |-> SubSeq(line, 1, i - 1), right |-> Skip(line, i + 1)]

Digits == <<"0", "1", "2", "3", "4", "5", "6", "7", "8", "9">>
IsDigit(c) == \E d \in 1..10 : Digits[d] = c
DigitVal(c) == (CHOOSE d \in 1..10 : Digits[d] = c) - 1

RECURSIVE StripZeros(_)
StripZeros(s) == IF Len(s) > 1 /\ s[1] = "0" THEN StripZeros(Tail(s)) ELSE s

\* decimal strings without leading zeros: a > b
DecGreater(a, b) ==
    \/ Len(a) > Len(b)
    \/ /\ Len(a) = Len(b)
       /\ \E i \in 1..Len(a) :
            /\ DigitVal(a[i]) > DigitVal(b[i])
            /\ \A j \in 1..(i - 1) : a[j] = b[j]

RECURSIVE DecValue(_)
DecValue(s) == IF s = <<>> THEN 0 ELSE 10 * DecValue(SubSeq(s, 1, Len(s) - 1)) + DigitVal(s[Len(s)])

\* u64 / usize / u32 to_string
RECURSIVE ToDecimal(_)
ToDecimal(n) == IF n < 10 THEN <<Digits[n + 1]>> ELSE ToDecimal(n \div 10) \o <<Digits[(n % 10) + 1]>>

U32Max == <<"4", "2", "9", "4", "9", "6", "7", "2", "9", "5">>
UsizeMax == <<"1", "8", "4", "4", "6", "7", "4", "4", "0", "7", "3", "7", "0", "9", "5", "5",
        "1", "6", "1", "5">>

\* <unsigned>::from_str: an optional "+", then one or more decimal digits and
\* nothing else, the value no greater than max
ParseUnsigned(s, max) ==
    LET digs == IF s # <<>> /\ s[1] = "+" THEN Tail(s) ELSE s
        norm == StripZeros(digs)
    IN  IF digs = <<>> \/ \E i \in 1..Len(digs) : ~IsDigit(digs[i])
        THEN [ok |-> FALSE, val |-> 0]
        ELSE IF DecGreater(norm, max)
        THEN [ok |-> FALSE, val |-> 0]
        ELSE [ok |-> TRUE, val |-> DecValue(norm)]

ParseU32(s) == ParseUnsigned(s, U32Max)
ParseUsize(s) == ParseUnsigned(s, UsizeMax)

(***************************************************************************)
(* message.rs: Method and Version tokens                                   *)
(***************************************************************************)

Methods == {"Get", "Head", "Post", "Put", "Delete", "Connect", "Options", "Trace", "Patch"}
Versions == {"Http11", "Http2", "Http3"}

\* Method::from_str, a plausible slip: the lower-case token of GET is taken too
MethodFromStrLenient(s) ==
    CASE s = <<"G", "E", "T">>     -> [ok |-> TRUE, val |-> "Get"]
      [] s = <<"g", "e", "t">>     -> [ok |-> TRUE, val |-> "Get"]
      [] s = <<"H", "E", "A", "D">>    -> [ok |-> TRUE, val |-> "Head"]
      [] s = <<"P", "O", "S", "T">>    -> [ok |-> TRUE, val |-> "Post"]
      [] s = <<"P", "U", "T">>     -> [ok |-> TRUE, val |-> "Put"]
      [] s = <<"D", "E", "L", "E", "T", "E">>  -> [ok |-> TRUE, val |-> "Delete"]
      [] s = <<"C", "O", "N", "N", "E", "C", "T">> -> [ok |-> TRUE, val |-> "Connect"]
      [] s = <<"O", "P", "T", "I", "O", "N", "S">> -> [ok |-> TRUE, val |-> "Options"]
      [] s = <<"T", "R", "A", "C", "E">>   -> [ok |-> TRUE, val |-> "Trace"]
      [] s = <<"P", "A", "T", "C", "H">>   -> [ok |-> TRUE, val |-> "Patch"]
      [] OTHER         -> [ok |-> FALSE, val |-> "InvalidMethod"]

\* Method::from_str
MethodFromStr(s) ==
    CASE s = <<"G", "E", "T">>     -> [ok |-> TRUE, val |-> "Get"]
      [] s = <<"H", "E", "A", "D">>    -> [ok |-> TRUE, val |-> "Head"]
      [] s = <<"P", "O", "S", "T">>    -> [ok |-> TRUE, val |-> "Post"]
      [] s = <<"P", "U", "T">>     -> [ok |-> TRUE, val |-> "Put"]
      [] s = <<"D", "E", "L", "E", "T", "E">>  -> [ok |-> TRUE, val |-> "Delete"]
      [] s = <<"C", "O", "N", "N", "E", "C", "T">> -> [ok |-> TRUE, val |-> "Connect"]
      [] s = <<"O", "P", "T", "I", "O", "N", "S">> -> [ok |-> TRUE, val |-> "Options"]
      [] s = <<"T", "R", "A", "C", "E">>   -> [ok |-> TRUE, val |-> "Trace"]
      [] s = <<"P", "A", "T", "C", "H">>   -> [ok |-> TRUE, val |-> "Patch"]
      [] OTHER         -> [ok |-> FALSE, val |-> "InvalidMethod"]

MethodDisplay(m) ==
    CASE m = "Get"     -> <<"G", "E", "T">>
      [] m = "Head"    -> <<"H", "E", "A", "D">>
      [] m = "Post"    -> <<"P", "O", "S", "T">>
      [] m = "Put"     -> <<"P", "U", "T">>
      [] m = "Delete"  -> <<"D", "E", "L", "E", "T", "E">>
      [] m = "Connect" -> <<"C", "O", "N", "N", "E", "C", "T">>
      [] m = "Options" -> <<"O", "P", "T", "I", "O", "N", "S">>
      [] m = "Trace"   -> <<"T", "R", "A", "C", "E">>
      [] m = "Patch"   -> <<"P", "A", "T", "C", "H">>

VersionFromStr(s) ==
    CASE s = <<"H", "T", "T", "P", "/", "1", ".", "1">> -> [ok |-> TRUE, val |-> "Http11"]
      [] s = <<"H", "T", "T", "P", "/", "2">>   -> [ok |-> TRUE, val |-> "Http2"]
      [] s = <<"H", "T", "T", "P", "/", "3">>   -> [ok |-> TRUE, val |-> "Http3"]
      [] OTHER          -> [ok |-> FALSE, val |-> "InvalidVersion"]

VersionDisplay(v) ==
    CASE v = "Http11" -> <<"H", "T", "T", "P", "/", "1", ".", "1">>
      [] v = "Http2"  -> <<"H", "T", "T", "P", "/", "2">>
      [] v = "Http3"  -> <<"H", "T", "T", "P", "/", "3">>

(***************************************************************************)
(* Values.  A Result is [ok, err, ...]; a header map is a function from    *)
(* header names to header values (HashMap<String, String>).                *)
(***************************************************************************)

NoMsg == [kind |-> "None"]
EmptyHeaders == [n \in {} |-> <<>>]
ContentLength == <<"C", "o", "n", "t", "e", "n", "t", "-", "L", "e", "n", "g", "t", "h">>

\* HashMap::insert, a plausible slip: a name already present keeps its value
HeadersInsertKeepFirst(headers, name, value) ==
    [n \in DOMAIN headers \cup {name} |->
        IF n \in DOMAIN headers THEN headers[n] ELSE value]

\* HashMap::insert: the value of a name already present is replaced
HeadersInsert(headers, name, value) ==
    [n \in DOMAIN headers \cup {name} |-> IF n = name THEN value ELSE headers[n]]

DecodeErr(e) == [ok |-> FALSE, err |-> e, msg |-> NoMsg, rest |-> <<>>]
DecodeOk(m, rest) == [ok |-> TRUE, err |-> "", msg |-> m, rest |-> rest]

(***************************************************************************)
(* request.rs                                                              *)
(***************************************************************************)

\* Request::new, a plausible slip: the body is taken without its last byte
RequestNewShortBody(method, resource, version, headers, body) ==
    IF ContentLength \in DOMAIN headers
    THEN LET length == ParseUsize(headers[ContentLength])
         IN  IF ~length.ok THEN DecodeErr("ParseIntError")
             ELSE IF length.val > Len(body) THEN DecodeErr("UnexpectedEof")
             ELSE DecodeOk([kind |-> "Request", method |-> method, resource |-> resource,
                            version |-> version, headers |-> headers,
                            body |-> SubSeq(body, 1, length.val - 1)],
                           Skip(body, length.val))
    ELSE DecodeOk([kind |-> "Request", method |-> method, resource |-> resource,
                   version |-> version, headers |-> headers, body |-> <<>>], body)

\* Request::new: the body is Content-Length bytes read with read_exact, which
\* fails with UnexpectedEof when the stream ends first; no header, no body
RequestNew(method, resource, version, headers, body) ==
    IF ContentLength \in DOMAIN headers
    THEN LET length == ParseUsize(headers[ContentLength])
         IN  IF ~length.ok THEN DecodeErr("ParseIntError")
             ELSE IF length.val > Len(body) THEN DecodeErr("UnexpectedEof")
             ELSE DecodeOk([kind |-> "Request", method |-> method, resource |-> resource,
                            version |-> version, headers |-> headers,
                            body |-> SubSeq(body, 1, length.val)],
                           Skip(body, length.val))
    ELSE DecodeOk([kind |-> "Request", method |-> method, resource |-> resource,
                   version |-> version, headers |-> headers, body |-> <<>>], body)

\* the header lines of serialize, in one iteration order of the map
RECURSIVE HeaderLines(_, _)
HeaderLines(headers, order) ==
    IF order = <<>> THEN <<>>
    ELSE Head(order) \o <<":", " ">> \o headers[Head(order)] \o <<"\r",
            "\n">> \o HeaderLines(headers, Tail(order))

\* the iteration orders a HashMap with these keys can have
Orders(keys) ==
    {o \in [1..Cardinality(keys) -> keys] : \A k \in keys : \E i \in DOMAIN o : o[i] = k}

\* Request::serialize, a plausible slip: the body is not appended
RequestSerializeNoBody(self, order) ==
    MethodDisplay(self.method) \o <<SP>> \o self.resource \o <<SP>>
        \o VersionDisplay(self.version) \o <<"\r", "\n">>
        \o HeaderLines(self.headers, order) \o <<"\r", "\n">>

\* Request::serialize, the headers iterated in the given order
RequestSerialize(self, order) ==
    MethodDisplay(self.method) \o <<SP>> \o self.resource \o <<SP>>
        \o VersionDisplay(self.version) \o <<"\r", "\n">>
        \o HeaderLines(self.headers, order) \o <<"\r", "\n">> \o self.body

(***************************************************************************)
(* response.rs                                                             *)
(***************************************************************************)

\* Response::new, a plausible slip: a body cut short by the end of the stream
\* is taken as it is
ResponseNewTruncating(version, errno, errstr, headers, body) ==
    IF ContentLength \in DOMAIN headers
    THEN LET length == ParseUsize(headers[ContentLength])
         IN  IF ~length.ok THEN DecodeErr("ParseIntError")
             ELSE IF length.val > Len(body)
             THEN DecodeOk([kind |-> "Response", version |-> version, code |-> errno,
                            message |-> errstr, headers |-> headers, body |-> body], <<>>)
             ELSE DecodeOk([kind |-> "Response", version |-> version, code |-> errno,
                            message |-> errstr, headers |-> headers,
                            body |-> SubSeq(body, 1, length.val)],
                           Skip(body, length.val))
    ELSE DecodeOk([kind |-> "Response", version |-> version, code |-> errno,
                   message |-> errstr, headers |-> headers, body |-> <<>>], body)

\* Response::new: as Request::new, Content-Length bytes read with read_exact
ResponseNew(version, errno, errstr, headers, body) ==
    IF ContentLength \in DOMAIN headers
    THEN LET length == ParseUsize(headers[ContentLength])
         IN  IF ~length.ok THEN DecodeErr("ParseIntError")
             ELSE IF length.val > Len(body) THEN DecodeErr("UnexpectedEof")
             ELSE DecodeOk([kind |-> "Response", version |-> version, code |-> errno,
                            message |-> errstr, headers |-> headers,
                            body |-> SubSeq(body, 1, length.val)],
                           Skip(body, length.val))
    ELSE DecodeOk([kind |-> "Response", version |-> version, code |-> errno,
                   message |-> errstr, headers |-> headers, body |-> <<>>], body)

\* Response::serialize, a plausible slip: a Content-Length header is set to
\* the length of the body before it is written
ResponseSerializeFixLength(self, order) ==
    LET fixed == [n \in DOMAIN self.headers |->
                    IF n = ContentLength THEN ToDecimal(Len(self.body)) ELSE self.headers[n]]
    IN  VersionDisplay(self.version) \o <<SP>> \o ToDecimal(self.code) \o <<SP>>
            \o self.message \o <<"\r", "\n">>
            \o HeaderLines(fixed, order) \o <<"\r", "\n">> \o self.body

\* Response::serialize, the headers iterated in the given order
ResponseSerialize(self, order) ==
    VersionDisplay(self.version) \o <<SP>> \o ToDecimal(self.code) \o <<SP>>
        \o self.message \o <<"\r", "\n">>
        \o HeaderLines(self.headers, order) \o <<"\r", "\n">> \o self.body

\* Message::serialize
MessageSerialize(self, order) ==
    IF self.kind = "Request" THEN RequestSerialize(self, order) ELSE ResponseSerialize(self, order)

(***************************************************************************)
(* message.rs: Message::parse and Message::deserialize                     *)
(***************************************************************************)

\* Message::parse, a plausible slip: a line whose first field is no token is
\* guessed to be a request when its third field is a Version
ParseGuessing(request_line, headers, body) ==
    LET parts == SplitN3(request_line)
    IN  IF Len(parts) # 3 THEN DecodeErr("RequestLineParse")
        ELSE LET method == MethodFromStr(parts[1])
             IN  IF method.ok
                 THEN LET version == VersionFromStr(parts[3])
                      IN  IF ~version.ok THEN DecodeErr("InvalidVersion")
                          ELSE RequestNew(method.val, parts[2], version.val, headers, body)
                 ELSE LET version == VersionFromStr(parts[1])
                      IN  IF version.ok
                          THEN LET code == ParseU32(parts[2])
                               IN  IF ~code.ok THEN DecodeErr("ParseIntError")
                                   ELSE ResponseNew(version.val, code.val, parts[3], headers, body)
                          ELSE IF VersionFromStr(parts[3]).ok
                          THEN RequestNew("Get", parts[2], VersionFromStr(parts[3]).val, headers, body)
                          ELSE DecodeErr("RequestLineParse")

\* Message::parse
Parse(request_line, headers, body) ==
    LET parts == SplitN3(request_line)
    IN  IF Len(parts) # 3 THEN DecodeErr("RequestLineParse")
        ELSE LET method == MethodFromStr(parts[1])
             IN  IF method.ok
                 THEN LET version == VersionFromStr(parts[3])
                      IN  IF ~version.ok THEN DecodeErr("InvalidVersion")
                          ELSE RequestNew(method.val, parts[2], version.val, headers, body)
                 ELSE LET version == VersionFromStr(parts[1])
                      IN  IF version.ok
                          THEN LET code == ParseU32(parts[2])
                               IN  IF ~code.ok THEN DecodeErr("ParseIntError")
                                   ELSE ResponseNew(version.val, code.val, parts[3], headers, body)
                          ELSE DecodeErr("RequestLineParse")

\* the header loop of deserialize: lines up to the first empty line or to the
\* end of the stream, each split at its first ": " and inserted
RECURSIVE ReadHeaders(_, _)
ReadHeaders(buf, headers) ==
    LET l == NextLine(buf)
    IN  IF l.tag = "Err" THEN [ok |-> FALSE, err |-> "InvalidData", headers |-> headers, rest |-> l.rest]
        ELSE IF l.tag = "None" \/ l.line = <<>>
        THEN [ok |-> TRUE, err |-> "", headers |-> headers, rest |-> l.rest]
        ELSE LET kv == SplitOnce(l.line)
             IN  IF ~kv.ok
                 THEN [ok |-> FALSE, err |-> "Header", headers |-> headers, rest |-> l.rest]
                 ELSE ReadHeaders(l.rest, HeadersInsert(headers, kv.left, kv.right))

\* Message::deserialize, a plausible slip: end of input is read as an empty line
DeserializeEofAsLine(reader) ==
    LET request_line == NextLine(reader)
    IN  IF request_line.tag = "Err" THEN DecodeErr("InvalidData")
        ELSE LET hs == ReadHeaders(request_line.rest, EmptyHeaders)
             IN  IF ~hs.ok THEN DecodeErr(hs.err)
                 ELSE Parse(request_line.line, hs.headers, hs.rest)

\* Message::deserialize on the bytes the reader still holds
Deserialize(reader) ==
    LET request_line == NextLine(reader)
    IN  IF request_line.tag = "Err" THEN DecodeErr("InvalidData")
        ELSE IF request_line.tag = "None" THEN DecodeErr("ConnectionClosed")
        ELSE LET hs == ReadHeaders(request_line.rest, EmptyHeaders)
             IN  IF ~hs.ok THEN DecodeErr(hs.err)
                 ELSE Parse(request_line.line, hs.headers, hs.rest)

\* Response::message: the fixed status table
ResponseMessage(code) ==
    CASE code = 100 -> [some |-> TRUE, val |-> <<"C", "o", "n", "t", "i", "n", "u", "e">>]
      [] code = 101 -> [some |-> TRUE, val |-> <<"S", "w", "i", "t", "c", "h", "i", "n", "g",
              " ", "P", "r", "o", "t", "o", "c", "o", "l", "s">>]
      [] code = 102 -> [some |-> TRUE, val |-> <<"P", "r", "o", "c", "e", "s", "s", "i", "n",
              "g">>]
      [] code = 103 -> [some |-> TRUE, val |-> <<"E", "a", "r", "l", "y", " ", "H", "i", "n",
              "t", "s">>]
      [] code = 200 -> [some |-> TRUE, val |-> <<"O", "K">>]
      [] code = 201 -> [some |-> TRUE, val |-> <<"C", "r", "e", "a", "t", "e", "d">>]
      [] code = 202 -> [some |-> TRUE, val |-> <<"A", "c", "c", "e", "p", "t", "e", "d">>]
      [] code = 203 -> [some |-> TRUE, val |-> <<"N", "o", "n", "-", "A", "u", "t", "h", "o",
              "r", "a", "t", "i", "v", "e", " ", "I", "n", "f", "o", "r", "m", "a", "t", "i",
              "o", "n">>]
      [] code = 204 -> [some |-> TRUE, val |-> <<"N", "o", " ", "C", "o", "n", "t", "e", "n",
              "t">>]
      [] code = 205 -> [some |-> TRUE, val |-> <<"R", "e", "s", "e", "t", " ", "C", "o", "n",
              "t", "e", "n", "t">>]
      [] code = 206 -> [some |-> TRUE, val |-> <<"P", "a", "r", "t", "i", "a", "l", " ", "C",
              "o", "n", "t", "e", "n", "t">>]
      [] code = 207 -> [some |-> TRUE, val |-> <<"M", "u", "l", "t", "i", "-", "S", "t", "a",
              "t", "u", "s">>]
      [] code = 208 -> [some |-> TRUE, val |-> <<"A", "l", "r", "e", "a", "d", "y", " ", "R",
              "e", "p", "o", "r", "t", "i", "n", "g">>]
      [] code = 226 -> [some |-> TRUE, val |-> <<"I", "M", " ", "U", "s", "e", "d">>]
      [] code = 300 -> [some |-> TRUE, val |-> <<"M", "u", "l", "t", "i", "p", "l", "e", " ",
              "C", "h", "o", "i", "c", "e", "s">>]
      [] code = 301 -> [some |-> TRUE, val |-> <<"M", "o", "v", "e", "d", " ", "P", "e", "r",
              "m", "a", "n", "e", "n", "t", "l", "y">>]
      [] code = 302 -> [some |-> TRUE, val |-> <<"F", "o", "u", "n", "d">>]
      [] code = 303 -> [some |-> TRUE, val |-> <<"S", "e", "e", " ", "O", "t", "h", "e", "r">>]
      [] code = 304 -> [some |-> TRUE, val |-> <<"N", "o", "t", " ", "M", "o", "d", "i", "f",
              "i", "e", "d">>]
      [] code = 307 -> [some |-> TRUE, val |-> <<"T", "e", "m", "p", "o", "r", "a", "r", "y",
              " ", "R", "e", "d", "i", "r", "e", "c", "t">>]
      [] code = 308 -> [some |-> TRUE, val |-> <<"P", "e", "r", "m", "a", "n", "e", "n", "t",
              " ", "R", "e", "d", "i", "r", "e", "c", "t">>]
      [] code = 400 -> [some |-> TRUE, val |-> <<"B", "a", "d", " ", "R", "e", "q", "u", "e",
              "s", "t">>]
      [] code = 401 -> [some |-> TRUE, val |-> <<"U", "n", "a", "u", "t", "h", "o", "r", "i",
              "z", "e", "d">>]
      [] code = 403 -> [some |-> TRUE, val |-> <<"F", "o", "r", "b", "i", "d", "d", "e", "n">>]
      [] code = 404 -> [some |-> TRUE, val |-> <<"N", "o", "t", " ", "F", "o", "u", "n", "d">>]
      [] code = 405 -> [some |-> TRUE, val |-> <<"M", "e", "t", "h", "o", "d", " ", "N", "o",
              "t", " ", "A", "l", "l", "o", "w", "e", "d">>]
      [] code = 406 -> [some |-> TRUE, val |-> <<"N", "o", "t", " ", "A", "c", "c", "e", "p",
              "t", "a", "b", "l", "e">>]
      [] code = 407 -> [some |-> TRUE, val |-> <<"P", "r", "o", "x", "y", " ", "A", "u", "t",
              "h", "e", "n", "t", "i", "c", "a", "t", "i", "o", "n", " ", "R", "e", "q", "u",
              "i", "r", "e", "d">>]
      [] code = 408 -> [some |-> TRUE, val |-> <<"R", "e", "q", "u", "e", "s", "t", " ", "T",
              "i", "m", "e", "o", "u", "t">>]
      [] code = 409 -> [some |-> TRUE, val |-> <<"C", "o", "n", "f", "l", "i", "c", "t">>]
      [] code = 410 -> [some |-> TRUE, val |-> <<"G", "o", "n", "e">>]
      [] code = 411 -> [some |-> TRUE, val |-> <<"L", "e", "n", "g", "t", "h", " ", "R", "e",
              "q", "u", "i", "r", "e", "d">>]
      [] code = 412 -> [some |-> TRUE, val |-> <<"P", "r", "e", "c", "o", "n", "d", "i", "t",
              "i", "o", "n", " ", "F", "a", "i", "l", "e", "d">>]
      [] code = 413 -> [some |-> TRUE, val |-> <<"P", "a", "y", "l", "o", "a", "d", " ", "T",
              "o", "o", " ", "L", "a", "r", "g", "e">>]
      [] code = 414 -> [some |-> TRUE, val |-> <<"U", "R", "I", " ", "T", "o", "o", " ", "L",
              "o", "n", "g">>]
      [] code = 415 -> [some |-> TRUE, val |-> <<"U", "n", "s", "u", "p", "p", "o", "r", "t",
              "e", "d", " ", "M", "e", "d", "i", "a", " ", "T", "y", "p", "e">>]
      [] code = 416 -> [some |-> TRUE, val |-> <<"R", "a", "n", "g", "e", " ", "N", "o", "t",
              " ", "S", "a", "t", "i", "s", "f", "y", "a", "b", "l", "e">>]
      [] code = 417 -> [some |-> TRUE, val |-> <<"E", "x", "p", "e", "c", "t", "a", "t", "i",
              "o", "n", " ", "F", "a", "i", "l", "e", "d">>]
      [] code = 418 -> [some |-> TRUE, val |-> <<"I", "'", "m", " ", "a", " ", "t", "e", "a",
              "p", "o", "t">>]
      [] code = 421 -> [some |-> TRUE, val |-> <<"M", "i", "s", "d", "i", "r", "e", "c", "t",
              " ", "R", "e", "q", "u", "e", "s", "t">>]
      [] code = 422 -> [some |-> TRUE, val |-> <<"U", "n", "p", "r", "o", "c", "e", "s", "s",
              "a", "b", "l", "e", " ", "C", "o", "n", "t", "e", "n", "t">>]
      [] code = 423 -> [some |-> TRUE, val |-> <<"L", "o", "c", "k", "e", "d">>]
      [] code = 424 -> [some |-> TRUE, val |-> <<"F", "a", "i", "l", "e", "d", " ", "D", "e",
              "p", "e", "n", "d", "e", "n", "c", "y">>]
      [] code = 426 -> [some |-> TRUE, val |-> <<"U", "p", "g", "r", "a", "d", "e", " ", "R",
              "e", "q", "u", "i", "r", "e", "d">>]
      [] code = 428 -> [some |-> TRUE, val |-> <<"P", "r", "e", "c", "o", "n", "d", "i", "t",
              "i", "o", "n", " ", "R", "e", "q", "u", "i", "r", "e", "d">>]
      [] code = 429 -> [some |-> TRUE, val |-> <<"T", "o", "o", " ", "M", "a", "n", "y", " ",
              "R", "e", "q", "u", "e", "s", "t", "s">>]
      [] code = 431 -> [some |-> TRUE, val |-> <<"R", "e", "q", "u", "e", "s", "t", " ", "H",
              "e", "a", "d", "e", "r", " ", "F", "i", "e", "l", "d", "s", " ", "T", "o", "o",
              " ", "L", "a", "r", "g", "e">>]
      [] code = 451 -> [some |-> TRUE, val |-> <<"U", "n", "a", "v", "a", "i", "l", "a", "b",
              "l", "e", " ", "f", "o", "r", " ", "L", "e", "g", "a", "l", " ", "R", "e", "a",
              "s", "o", "n", "s">>]
      [] code = 500 -> [some |-> TRUE, val |-> <<"I", "n", "t", "e", "r", "n", "a", "l", " ",
              "S", "e", "r", "v", "e", "r", " ", "E", "r", "r", "o", "r">>]
      [] code = 501 -> [some |-> TRUE, val |-> <<"N", "o", "t", " ", "I", "m", "p", "l", "e",
              "m", "e", "n", "t", "e", "d">>]
      [] code = 502 -> [some |-> TRUE, val |-> <<"B", "a", "d", " ", "G", "a", "t", "e", "w",
              "a", "y">>]
      [] code = 503 -> [some |-> TRUE, val |-> <<"S", "e", "r", "v", "i", "c", "e", " ", "U",
              "n", "a", "v", "a", "i", "l", "a", "b", "l", "e">>]
      [] code = 504 -> [some |-> TRUE, val |-> <<"G", "a", "t", "e", "w", "a", "y", " ", "T",
              "i", "m", "e", "o", "u", "t">>]
      [] code = 505 -> [some |-> TRUE, val |-> <<"H", "T", "T", "P", " ", "V", "e", "r", "s",
              "i", "o", "n", " ", "N", "o", "t", " ", "S", "u", "p", "p", "o", "r", "t", "e",
              "d">>]
      [] code = 506 -> [some |-> TRUE, val |-> <<"V", "a", "r", "i", "a", "n", "t", " ", "A",
              "l", "s", "o", " ", "N", "e", "g", "o", "t", "i", "a", "t", "e", "s">>]
      [] code = 507 -> [some |-> TRUE, val |-> <<"I", "n", "s", "u", "f", "f", "i", "c", "i",
              "e", "n", "t", " ", "S", "t", "o", "r", "a", "g", "e">>]
      [] code = 508 -> [some |-> TRUE, val |-> <<"L", "o", "o", "p", " ", "D", "e", "t", "e",
              "c", "t", "e", "d">>]
      [] code = 510 -> [some |-> TRUE, val |-> <<"N", "o", "t", " ", "E", "x", "t", "e", "n",
              "d", "e", "d">>]
      [] code = 511 -> [some |-> TRUE, val |-> <<"N", "e", "t", "w", "o", "r", "k", " ", "A",
              "u", "t", "h", "e", "n", "t", "i", "c", "a", "t", "i", "o", "n", " ", "R", "e",
              "q", "u", "i", "r", "e", "d">>]
      [] OTHER -> [some |-> FALSE, val |-> <<>>]

(***************************************************************************)
(* main.rs: the server configuration, the file system the response policy  *)
(* reads, and the response policy                                          *)
(***************************************************************************)

\* ServerInfo { root, host, port } of the connection
Root == <<"w">>
HostName == <<"h">>
Port == 80

\* a file system maps a path to a file with its bytes or to a directory;
\* a path outside its domain does not exist
File(data) == [kind |-> "file", data |-> data]
Dir == [kind |-> "dir"]

\* ServerInfo::path
Path(pathstr) == Root \o <<"/">> \o pathstr

\* ServerInfo::host_check
HostCheck(host) == host = HostName \/ host = HostName \o <<":">> \o ToDecimal(Port)

\* get_filepath_from_code
GetFilepathFromCode(code) == <<".", "e", "r", "r", "o", "r", "s",
        "/">> \o ToDecimal(code) \o <<".", "h", "t", "m", "l">>

\* Response::serve_file_with_code, a plausible slip: the reason phrase is
\* looked up for 200 whatever the code
ServeFileWithCodePhraseOf200(version, code, file) ==
    IF file.kind = "dir" THEN DecodeErr("IsADirectory")
    ELSE LET headers == HeadersInsert(EmptyHeaders, ContentLength, ToDecimal(Len(file.data)))
             m == ResponseMessage(200)
         IN  ResponseNew(version, code, IF m.some THEN m.val ELSE <<"U", "n", "k", "n", "o",
                 "w", "n", " ", "C", "o", "d", "e">>,
                         headers, file.data)

\* Response::serve_file_with_code on an opened file: Content-Length from the
\* metadata, the body read from the file; reading a directory fails
ServeFileWithCode(version, code, file) ==
    IF file.kind = "dir" THEN DecodeErr("IsADirectory")
    ELSE LET headers == HeadersInsert(EmptyHeaders, ContentLength, ToDecimal(Len(file.data)))
             m == ResponseMessage(code)
         IN  ResponseNew(version, code, IF m.some THEN m.val ELSE <<"U", "n", "k", "n", "o",
                 "w", "n", " ", "C", "o", "d", "e">>,
                         headers, file.data)

\* Response::serve_file
ServeFile(version, file) == ServeFileWithCode(version, 200, file)

\* error(code, config): the error page of the code, File::open failing when
\* the page does not exist
Error(code, files) ==
    LET p == Path(GetFilepathFromCode(code))
    IN  IF p \notin DOMAIN files THEN DecodeErr("NotFound")
        ELSE ServeFileWithCode("Http11", code, files[p])

\* create_response(request, config)
CreateResponse(request, files) ==
    IF ~(<<"H", "o", "s", "t">> \in DOMAIN request.headers /\ HostCheck(request.headers[<<"H",
            "o", "s", "t">>]))
    THEN Error(400, files)
    ELSE IF Path(request.resource) \notin DOMAIN files
    THEN Error(404, files)
    ELSE LET path == IF files[Path(request.resource)].kind = "dir"
                     THEN request.resource \o <<"/", "i", "n", "d", "e", "x", ".", "h", "t",
                             "m", "l">>
                     ELSE request.resource
         IN  IF Path(path) \notin DOMAIN files THEN DecodeErr("NotFound")
             ELSE ServeFile("Http11", files[Path(path)])

(***************************************************************************)
(* State                                                                   *)
(***************************************************************************)

VARIABLES
    script,      \* what the peer sends on the connection before it closes, in pieces
    inbuf,       \* the bytes the read half has not consumed yet
    fs,          \* the file system under the server root
    pc,          \* where handle_connection is; the two Closed states are its return
    msg,         \* the message being handled (NoMsg between messages)
    reply,       \* the Response to write
    written,     \* the bytes each write call put on the write half, in order
    error,       \* the error handle_connection returned
    lastDecode,  \* the error of the last read_obj, "" when it gave a message
    lastWrite,   \* what the last write call did: "all", "short", "failed"; "" before any
    decoded,     \* history: the messages decoded, in order
    replies,     \* history: the Responses built, in order
    dparts,      \* decoder check: the pieces of the input
    din,         \* decoder check: the input bytes
    dres,        \* decoder check: the result of deserialize
    rtv,         \* round trip: the value
    rtbytes,     \* round trip: its serialization
    rtback,      \* round trip: the result of deserializing it
    fin,         \* function check: the input of the function applied
    fout,        \* function check: its result
    smsgs,       \* stream check: the messages to send, in order
    sent,        \* stream check: how many of them are serialized onto the stream
    wire,        \* stream check: the bytes of the stream not consumed yet
    results,     \* stream check: each decode, its result and the bytes it consumed
    clients,     \* server: the peers that connect, in the order they do
    listeners,   \* server: the state of the http and of the https accept loop
    conns        \* server: the connection tasks spawned, in the order of their accept

connVars ==
    <<script, inbuf, fs, pc, msg, reply, written, error, lastDecode, lastWrite, decoded, replies>>
decVars == <<dparts, din, dres>>
rtVars == <<rtv, rtbytes, rtback>>
fnVars == <<fin, fout>>
strVars == <<smsgs, sent, wire, results>>
srvVars == <<clients, listeners, conns>>
vars == <<connVars, decVars, rtVars, fnVars, strVars, srvVars>>

NoResult == [ok |-> FALSE, err |-> "NotRun", msg |-> NoMsg, rest |-> <<>>]
ConnIdle ==
    /\ script = <<>> /\ inbuf = <<>> /\ fs = EmptyHeaders /\ pc = "Idle" /\ msg = NoMsg
    /\ reply = NoMsg /\ written = <<>> /\ error = "" /\ lastDecode = "" /\ lastWrite = ""
    /\ decoded = <<>> /\ replies = <<>>
DecIdle == dparts = <<>> /\ din = <<>> /\ dres = NoResult
RtIdle == rtv = NoMsg /\ rtbytes = <<>> /\ rtback = NoResult
FnIdle == fin = <<>> /\ fout = <<>>
StrIdle == smsgs = <<>> /\ sent = 0 /\ wire = <<>> /\ results = <<>>
SrvIdle == clients = <<>> /\ listeners = <<>> /\ conns = <<>>

(***************************************************************************)
(* The connection: handle_connection over one stream                       *)
(***************************************************************************)

MaxMsgs == 2

\* well-formed requests a peer sends
WellFormedRequests == {
    <<"G", "E", "T", " ", "/", "a", " ", "H", "T", "T", "P", "/", "1", ".", "1", "\r", "\n",
            "H", "o", "s", "t", ":", " ", "h", "\r", "\n", "\r", "\n">>,
    <<"G", "E", "T", " ", "/", " ", "H", "T", "T", "P", "/", "1", ".", "1", "\r", "\n", "H",
            "o", "s", "t", ":", " ", "h", ":", "8", "0", "\r", "\n", "\r", "\n">>,
    <<"G", "E", "T", " ", "/", "x", " ", "H", "T", "T", "P", "/", "1", ".", "1", "\r", "\n",
            "H", "o", "s", "t", ":", " ", "h", "\r", "\n", "\r", "\n">>,
    <<"P", "O", "S", "T", " ", "/", "a", " ", "H", "T", "T", "P", "/", "1", ".", "1", "\r",
            "\n", "C", "o", "n", "t", "e", "n", "t", "-", "L", "e", "n", "g", "t", "h", ":",
            " ", "2", "\r", "\n", "\r", "\n", "h", "i">> }

\* other things a peer sends: a response, malformed messages, cut-off messages
OtherPieces == {
    <<"H", "T", "T", "P", "/", "1", ".", "1", " ", "2", "0", "0", " ", "O", "K", "\r", "\n",
            "\r", "\n">>,
    <<"G", "E", "T", " ", "/", "\r", "\n", "\r", "\n">>,
    <<"G", "E", "T", " ", "/", "a", " ", "H", "T", "T", "P", "/", "1", ".", "1", "\r", "\n",
            "B", "a", "d", "H", "e", "a", "d", "e", "r", "L", "i", "n", "e", "\r", "\n", "\r",
            "\n">>,
    <<"G", "E", "T", " ", "/", "a", " ", "H", "T", "T", "P", "/", "1", ".", "1", "\r", "\n",
            "C", "o", "n", "t", "e", "n", "t", "-", "L", "e", "n", "g", "t", "h", ":", " ",
            "x", "\r", "\n", "\r", "\n">>,
    <<"G", "E", "T", " ", "/", "a", " ", "H", "T", "T", "P", "/", "1", ".", "1", "\r", "\n",
            "C", "o", "n", "t", "e", "n", "t", "-", "L", "e", "n", "g", "t", "h", ":", " ",
            "5", "\r", "\n", "\r", "\n", "h", "i">>,
    <<"G", "E", "T", " ", "/", "a", " ", "H", "T", "T", "P", "/", "1", ".", "1", "\r", "\n",
            "H", "o", "s", "t", ":", " ", "h", "\r", "\n">> }

Pieces == WellFormedRequests \cup OtherPieces

Scripts(S) == UNION {[1..n -> S] : n \in 0..MaxMsgs}

FsPaths == {Path(<<".", "e", "r", "r", "o", "r", "s", "/", "4", "0", "0", ".", "h", "t", "m",
        "l">>), Path(<<".", "e", "r", "r", "o", "r", "s", "/", "4", "0", "4", ".", "h", "t",
        "m", "l">>), Path(<<"/">>),
            Path(<<"/", "/", "i", "n", "d", "e", "x", ".", "h", "t", "m", "l">>), Path(<<"/",
                    "a">>)}

BaseFs ==
    [p \in FsPaths |->
        CASE p = Path(<<".", "e", "r", "r", "o", "r", "s", "/", "4", "0", "0", ".", "h", "t",
                "m", "l">>) -> File(<<"b", "a", "d">>)
          [] p = Path(<<".", "e", "r", "r", "o", "r", "s", "/", "4", "0", "4", ".", "h", "t",
                  "m", "l">>) -> File(<<"n", "f">>)
          [] p = Path(<<"/">>) -> Dir
          [] p = Path(<<"/", "/", "i", "n", "d", "e", "x", ".", "h", "t", "m",
                  "l">>) -> File(<<"i", "d", "x">>)
          [] p = Path(<<"/", "a">>) -> File(<<"A">>)]

Without(files, p) == [q \in DOMAIN files \ {p} |-> files[q]]

FileSystems == {BaseFs, Without(BaseFs, Path(<<".", "e", "r", "r", "o", "r", "s", "/", "4",
        "0", "0", ".", "h", "t", "m", "l">>)),
                Without(BaseFs, Path(<<".", "e", "r", "r", "o", "r", "s", "/", "4", "0", "4",
                        ".", "h", "t", "m", "l">>)),
                Without(BaseFs, Path(<<"/", "/", "i", "n", "d", "e", "x", ".", "h", "t", "m",
                        "l">>))}

Init ==
    /\ script \in Scripts(Pieces)
    /\ inbuf = Concat(script)
    /\ fs \in FileSystems
    /\ pc = "AwaitingMessage"
    /\ msg = NoMsg /\ reply = NoMsg /\ written = <<>> /\ error = "" /\ lastDecode = ""
    /\ lastWrite = "" /\ decoded = <<>> /\ replies = <<>>
    /\ DecIdle /\ RtIdle /\ FnIdle /\ StrIdle /\ SrvIdle

MessageParseErrors == {"ConnectionClosed", "RequestLineParse", "Header"}

\* what handle_connection returns for a failed read_obj: a plausible slip
\* that takes every MessageParseError for a close
OnDecodeErrorAllGraceful(e) ==
    IF e \in MessageParseErrors
    THEN [pc |-> "ClosedGracefully", error |-> ""]
    ELSE [pc |-> "ClosedWithError", error |-> e]

\* what handle_connection returns for a failed read_obj: the downcast to
\* MessageParseError, ConnectionClosed is Ok(()), every other error is returned
OnDecodeError(e) ==
    IF e \in MessageParseErrors
    THEN IF e = "ConnectionClosed"
         THEN [pc |-> "ClosedGracefully", error |-> ""]
         ELSE [pc |-> "ClosedWithError", error |-> e]
    ELSE [pc |-> "ClosedWithError", error |-> e]

\* read_obj and its match, a plausible slip: a failed decode is answered
\* with the error page before the connection ends
ReadObjRepliesOnFailure ==
    /\ pc = "AwaitingMessage"
    /\ LET r == Deserialize(inbuf)
       IN  IF r.ok
           THEN /\ msg' = r.msg
                /\ inbuf' = r.rest
                /\ pc' = "Dispatching"
                /\ lastDecode' = ""
                /\ decoded' = Append(decoded, r.msg)
                /\ error' = error
                /\ written' = written
           ELSE /\ msg' = NoMsg
                /\ inbuf' = r.rest
                /\ pc' = OnDecodeError(r.err).pc
                /\ error' = OnDecodeError(r.err).error
                /\ lastDecode' = r.err
                /\ decoded' = decoded
                /\ written' = IF r.err = "ConnectionClosed" THEN written
                              ELSE Append(written, <<"H", "T", "T", "P", "/", "1", ".", "1",
                                      " ", "4", "0", "0", " ", "B", "a", "d", " ", "R", "e",
                                      "q", "u", "e", "s", "t", "\r", "\n", "\r", "\n">>)
    /\ UNCHANGED <<script, fs, reply, lastWrite, replies, decVars, rtVars, fnVars, strVars, srvVars>>

\* reader.read_obj() and the match on its result
ReadObj ==
    /\ pc = "AwaitingMessage"
    /\ LET r == Deserialize(inbuf)
       IN  IF r.ok
           THEN /\ msg' = r.msg
                /\ inbuf' = r.rest
                /\ pc' = "Dispatching"
                /\ lastDecode' = ""
                /\ decoded' = Append(decoded, r.msg)
                /\ error' = error
           ELSE /\ msg' = NoMsg
                /\ inbuf' = r.rest
                /\ pc' = OnDecodeError(r.err).pc
                /\ error' = OnDecodeError(r.err).error
                /\ lastDecode' = r.err
                /\ decoded' = decoded
    /\ UNCHANGED <<script, fs, reply, written, lastWrite, replies, decVars, rtVars, fnVars, strVars, srvVars>>

\* the reply of the policy, a plausible slip: the reply is built and dropped,
\* and the loop reads on
DispatchedReplyDropped(r) ==
    /\ IF r.ok
       THEN /\ reply' = r.msg
            /\ replies' = Append(replies, r.msg)
            /\ pc' = "AwaitingMessage"
            /\ error' = error
       ELSE /\ reply' = reply
            /\ replies' = replies
            /\ pc' = "ClosedWithError"
            /\ error' = r.err
    /\ UNCHANGED <<script, inbuf, fs, msg, written, lastDecode, lastWrite, decoded, decVars, rtVars,
                   fnVars, strVars, srvVars>>

\* the reply of the policy is kept, its failure is returned by `?`
Dispatched(r) ==
    /\ IF r.ok
       THEN /\ reply' = r.msg
            /\ replies' = Append(replies, r.msg)
            /\ pc' = "Replying"
            /\ error' = error
       ELSE /\ reply' = reply
            /\ replies' = replies
            /\ pc' = "ClosedWithError"
            /\ error' = r.err
    /\ UNCHANGED <<script, inbuf, fs, msg, written, lastDecode, lastWrite, decoded, decVars, rtVars,
                   fnVars, strVars, srvVars>>

\* Message::Request(req): create_response(req, &config).await?
DispatchRequest ==
    /\ pc = "Dispatching"
    /\ msg.kind = "Request"
    /\ Dispatched(CreateResponse(msg, fs))

\* Message::Response(_): error(400, &config).await?
DispatchResponse ==
    /\ pc = "Dispatching"
    /\ msg.kind = "Response"
    /\ Dispatched(Error(400, fs))

\* what one write call on the stream does with raw: take all of it, take only
\* a part of it and say so, or fail
WriteOutcomes(raw) ==
    {[ok |-> TRUE, n |-> Len(raw)], [ok |-> TRUE, n |-> Len(raw) \div 2], [ok |-> FALSE, n |-> 0]}

\* what handle_connection does after the write call, a plausible slip: the
\* failure is dropped like the count
AfterWriteIgnoreFailure(w) == [pc |-> "AwaitingMessage", error |-> ""]

\* what handle_connection does after the write call: write_obj drops the
\* count of an Ok(n) and returns Ok(()), so the loop starts over; `?` returns
\* the error of a failed write
AfterWrite(w) ==
    IF w.ok
    THEN [pc |-> "AwaitingMessage", error |-> ""]
    ELSE [pc |-> "ClosedWithError", error |-> "WriteFailed"]

\* writer.write_obj(&response).await?: serialize, then one write call
WriteObj ==
    /\ pc = "Replying"
    /\ \E order \in Orders(DOMAIN reply.headers) :
       LET raw == ResponseSerialize(reply, order)
       IN  \E w \in WriteOutcomes(raw) :
             /\ written' = IF w.ok THEN Append(written, SubSeq(raw, 1, w.n)) ELSE written
             /\ lastWrite' = IF ~w.ok THEN "failed" ELSE IF w.n < Len(raw) THEN "short" ELSE "all"
             /\ pc' = AfterWrite(w).pc
             /\ error' = IF w.ok THEN error ELSE AfterWrite(w).error
             /\ msg' = IF AfterWrite(w).pc = "AwaitingMessage" THEN NoMsg ELSE msg
    /\ UNCHANGED <<script, inbuf, fs, reply, lastDecode, decoded, replies, decVars, rtVars, fnVars, strVars, srvVars>>

Next == ReadObj \/ DispatchRequest \/ DispatchResponse \/ WriteObj

Spec == Init /\ [][Next]_vars

(***************************************************************************)
(* Properties of the connection loop                                       *)
(***************************************************************************)

Terminal == {"ClosedGracefully", "ClosedWithError"}

\* C1: when the peer sends N well-formed requests and then closes, and no
\* write call fails, handle_connection has written exactly N replies when it
\* returns, the k-th being the serialized reply of the policy to the k-th
\* request, and it returns Ok (ClosedGracefully).
C1_NRepliesThenGraceful ==
    ( /\ \A k \in 1..Len(script) : script[k] \in WellFormedRequests
      /\ pc \in Terminal
      /\ error # "WriteFailed" )
    => /\ pc = "ClosedGracefully"
       /\ Len(decoded) = Len(script)
       /\ Len(written) = Len(script)
       /\ \A k \in 1..Len(script) :
            /\ decoded[k] = Deserialize(script[k]).msg
            /\ \E order \in Orders(DOMAIN replies[k].headers) :
                 written[k] = ResponseSerialize(replies[k], order)

\* C2: a read_obj that finds the stream at its end with no byte of a start
\* line read (at once, or after complete messages) gives ConnectionClosed, and
\* handle_connection returns Ok with nothing more written.
C2_EofBeforeStartLineIsGraceful ==
    [][(pc = "AwaitingMessage" /\ inbuf = <<>>)
         => /\ lastDecode' = "ConnectionClosed"
            /\ pc' = "ClosedGracefully"
            /\ error' = ""
            /\ written' = written]_vars

C2_Witness ==
    /\ pc = "ClosedGracefully"
    /\ lastDecode = "ConnectionClosed"
    /\ Len(decoded) >= 1
    /\ Len(written) = Len(decoded)

\* C3: a read_obj that fails with anything but ConnectionClosed ends
\* handle_connection in the error outcome with that very error: the state
\* after such a failure is ClosedWithError, reached from AwaitingMessage with
\* nothing written, and no later step leaves it.
C3_DecodeFailureIsFatal ==
    [][ /\ (lastDecode' \notin {"", "ConnectionClosed"})
            => /\ pc = "AwaitingMessage"
               /\ pc' = "ClosedWithError"
               /\ error' = lastDecode'
               /\ written' = written
        /\ pc \notin Terminal ]_vars

C3_Witness ==
    /\ lastDecode = "UnexpectedEof"
    /\ pc = "ClosedWithError"
    /\ error = "UnexpectedEof"
    /\ Len(decoded) >= 1

\* C10: while a decoded Response is being handled, the loop is building or
\* writing the 400 reply, and the only way it ends the connection is a failed
\* write; after the write it is back to awaiting the next message.
C10_ResponseGets400AndContinues ==
    msg.kind = "Response"
    => \/ pc = "Dispatching"
       \/ pc = "Replying" /\ reply.code = 400 /\ reply.message = <<"B", "a", "d", " ", "R",
               "e", "q", "u", "e", "s", "t">>
       \/ pc = "ClosedWithError" /\ error = "WriteFailed"

\* C11: a short write (the stream takes fewer bytes than the serialized
\* reply) is fatal to the connection: after it the loop is in the error
\* outcome and decodes nothing more.
C11_ShortWriteIsFatal ==
    lastWrite = "short" => pc = "ClosedWithError"

\* C12: a write call that fails is fatal: the step that sees it goes from
\* Replying to the error outcome with the write error, reads and writes
\* nothing, and a terminated loop takes no further step.
C12_WriteFailureIsFatal ==
    [][/\ pc \notin Terminal
       /\ (lastWrite' = "failed")
         => /\ pc = "Replying"
            /\ pc' = "ClosedWithError"
            /\ error' = "WriteFailed"
            /\ written' = written
            /\ inbuf' = inbuf
            /\ decoded' = decoded]_vars

C12_Witness ==
    /\ lastWrite = "failed"
    /\ pc = "ClosedWithError"
    /\ error = "WriteFailed"
    /\ Len(written) >= 1

\* the status the policy is to answer a request with
BadHost(request) ==
    ~(<<"H", "o", "s", "t">> \in DOMAIN request.headers /\ HostCheck(request.headers[<<"H",
            "o", "s", "t">>]))
ResourceMissing(request) == Path(request.resource) \notin DOMAIN fs

\* C13: while a decoded Request is being handled, a failure inside the
\* policy ends in a well-formed error Response to write (400 for a bad Host,
\* 404 for a missing resource, Content-Length equal to the body length), and
\* the only way the connection ends is a failed write.
C13_PolicyFailureBecomesResponse ==
    msg.kind = "Request"
    => \/ pc = "Dispatching"
       \/ /\ pc = "Replying"
          /\ BadHost(msg) => reply.code = 400
          /\ (~BadHost(msg) /\ ResourceMissing(msg)) => reply.code = 404
          /\ reply.headers[ContentLength] = ToDecimal(Len(reply.body))
       \/ pc = "ClosedWithError" /\ error = "WriteFailed"

\* C14: the step in which a decode fails ends the loop and writes nothing:
\* it is taken from AwaitingMessage, leads to a terminal state and leaves the
\* write half as it was, and no step follows it.
C14_NoReplyToFailedDecode ==
    [][(lastDecode' # "")
         => /\ pc = "AwaitingMessage"
            /\ pc' \in Terminal
            /\ written' = written
            /\ replies' = replies]_vars

C14_Witness ==
    /\ lastDecode = "RequestLineParse"
    /\ pc = "ClosedWithError"
    /\ Len(written) = Len(decoded)
    /\ Len(decoded) >= 1

\* the reply of the policy to a decoded message
PolicyReply(m) == IF m.kind = "Request" THEN CreateResponse(m, fs) ELSE Error(400, fs)

IsPrefix(p, s) == Len(p) <= Len(s) /\ p = SubSeq(s, 1, Len(p))

MaxHeaderLines == 2

StartLines == {
    <<"G", "E", "T", " ", "/", " ", "H", "T", "T", "P", "/", "1", ".", "1">>,
    <<"P", "O", "S", "T", " ", "/", "a", " ", "H", "T", "T", "P", "/", "2">>,
    <<"G", "E", "T", " ", " ", "H", "T", "T", "P", "/", "3">>,
    <<"G", "E", "T", " ", "/">>,
    <<"G", "E", "T">>,
    <<>>,
    <<"G", "E", "T", " ", "/", " ", "H", "T", "T", "P", "/", "1", ".", "1", " ", "x">>,
    <<"g", "e", "t", " ", "/", " ", "H", "T", "T", "P", "/", "1", ".", "1">>,
    <<"G", "E", "T", " ", "/", " ", "H", "T", "T", "P", "/", "9">>,
    <<"G", "E", "T", " ", "/", "xFF", " ", "H", "T", "T", "P", "/", "1", ".", "1">>,
    <<"H", "T", "T", "P", "/", "1", ".", "1", " ", "2", "0", "0", " ", "O", "K">>,
    <<"H", "T", "T", "P", "/", "1", ".", "1", " ", "4", "0", "4", " ", "N", "o", "t", " ",
            "F", "o", "u", "n", "d">>,
    <<"H", "T", "T", "P", "/", "3", " ", "a", "b", "c", " ", "O", "K">>,
    <<"H", "T", "T", "P", "/", "1", ".", "0", " ", "2", "0", "0", " ", "O", "K">>,
    <<"H", "T", "T", "P", "/", "1", ".", "1", " ", "4", "2", "9", "4", "9", "6", "7", "2",
            "9", "6", " ", "x">>,
    <<"H", "T", "T", "P", "/", "2", " ", "2", "0", "0">> }

HeaderLineSet == {
    <<"H", "o", "s", "t", ":", " ", "h">>,
    <<"H", "o", "s", "t", ":", " ", "g">>,
    <<"C", "o", "n", "t", "e", "n", "t", "-", "L", "e", "n", "g", "t", "h", ":", " ", "2">>,
    <<"C", "o", "n", "t", "e", "n", "t", "-", "L", "e", "n", "g", "t", "h", ":", " ", "9">>,
    <<"C", "o", "n", "t", "e", "n", "t", "-", "L", "e", "n", "g", "t", "h", ":", " ", "x">>,
    <<"c", "o", "n", "t", "e", "n", "t", "-", "l", "e", "n", "g", "t", "h", ":", " ", "1">>,
    <<"a", ":", " ", "b", ":", " ", "c">>,
    <<"B", "a", "d", "H", "e", "a", "d", "e", "r", "L", "i", "n", "e">> }

Eols == {<<"\r", "\n">>, <<"\n">>}

\* "blank": a blank line ends the header block and Tail follows;
\* "eof": the stream ends after the last line; "eofnonl": it ends inside it
Ends == {"blank", "eof", "eofnonl"}

Tails == {<<>>, <<"h", "i">>, <<"h", "i", "!">>, <<"xFF", "\n">>}

DParts ==
    {p \in [start : StartLines,
            hdrs  : UNION {[1..n -> HeaderLineSet] : n \in 0..MaxHeaderLines},
            eol   : Eols,
            end   : Ends,
            tail  : Tails] : p.end # "blank" => p.tail = <<>>}

RECURSIVE JoinLines(_, _)
JoinLines(lines, eol) ==
    IF lines = <<>> THEN <<>> ELSE Head(lines) \o eol \o JoinLines(Tail(lines), eol)

Assemble(p) ==
    LET lines == <<p.start>> \o p.hdrs
    IN  CASE p.end = "blank" -> JoinLines(lines, p.eol) \o p.eol \o p.tail
          [] p.end = "eof" -> JoinLines(lines, p.eol)
          [] p.end = "eofnonl" ->
                JoinLines(SubSeq(lines, 1, Len(lines) - 1), p.eol) \o lines[Len(lines)]

InitDecode ==
    /\ dparts \in DParts
    /\ din = Assemble(dparts)
    /\ dres = NoResult
    /\ ConnIdle /\ RtIdle /\ FnIdle /\ StrIdle /\ SrvIdle

\* Message::deserialize(&mut reader) on a reader over din
DoDeserialize ==
    /\ dres = NoResult
    /\ dparts # <<>>
    /\ dres' = Deserialize(din)
    /\ UNCHANGED <<dparts, din, connVars, rtVars, fnVars, strVars, srvVars>>

NextDecode == DoDeserialize

SpecDecode == InitDecode /\ [][NextDecode]_vars

(***************************************************************************)
(* Properties of the decoder, stated on the pieces of the input            *)
(***************************************************************************)

MethodTokens == {<<"G", "E", "T">>, <<"H", "E", "A", "D">>, <<"P", "O", "S", "T">>, <<"P",
        "U", "T">>, <<"D", "E", "L", "E", "T", "E">>, <<"C", "O", "N", "N", "E", "C", "T">>,
        <<"O", "P", "T", "I", "O", "N", "S">>, <<"T", "R", "A", "C", "E">>, <<"P", "A", "T",
        "C", "H">>}
VersionTokens == {<<"H", "T", "T", "P", "/", "1", ".", "1">>, <<"H", "T", "T", "P", "/",
        "2">>, <<"H", "T", "T", "P", "/", "3">>}

HasXFF(s) == \E i \in 1..Len(s) : s[i] = XFF
ColonSpaceAt(l, i) == i \in 1..(Len(l) - 1) /\ l[i] = ":" /\ l[i + 1] = SP
HasColonSpace(l) == \E i \in 1..Len(l) : ColonSpaceAt(l, i)
FirstColonSpace(l) ==
    CHOOSE i \in 1..Len(l) : ColonSpaceAt(l, i) /\ \A j \in 1..(i - 1) : ~ColonSpaceAt(l, j)
NameOf(l) == SubSeq(l, 1, FirstColonSpace(l) - 1)
ValueOf(l) == SubSeq(l, FirstColonSpace(l) + 2, Len(l))

RECURSIVE JoinFields(_)
JoinFields(f) == IF Len(f) = 1 THEN f[1] ELSE f[1] \o <<SP>> \o JoinFields(Tail(f))

\* deserialize has run on an input whose start line and header lines it could
\* read (some byte of a start line was there, every line is UTF-8)
LinesRead ==
    /\ dres # NoResult
    /\ din # <<>>
    /\ ~HasXFF(dparts.start)
    /\ \A i \in 1..Len(dparts.hdrs) : ~HasXFF(dparts.hdrs[i])

HeadersWellFormed == \A i \in 1..Len(dparts.hdrs) : HasColonSpace(dparts.hdrs[i])

\* C5: the body of a decoded message is as long as the value of its
\* Content-Length header, empty without one, and is made of exactly the
\* bytes that follow the blank line ending the header block.
C5_BodyIsContentLengthBytes ==
    (dres # NoResult /\ dres.ok)
    => LET m == dres.msg
           n == IF ContentLength \in DOMAIN m.headers
                THEN DecValue(m.headers[ContentLength])
                ELSE 0
       IN  /\ Len(m.body) = n
           /\ m.body = SubSeq(dparts.tail, 1, n)
           /\ dres.rest = Skip(dparts.tail, n)

C5_Witness ==
    /\ dres.ok
    /\ dparts.tail = <<"h", "i", "!">>
    /\ ContentLength \in DOMAIN dres.msg.headers
    /\ dres.msg.body = <<"h", "i">>

\* C6 as stated: a start line with fewer or with more than three
\* space-separated fields is rejected with RequestLineParse.
C6_NotThreeFieldsRejected ==
    (LinesRead /\ HeadersWellFormed /\ Len(SplitAll(dparts.start)) # 3)
    => (~dres.ok /\ dres.err = "RequestLineParse")

\* C6 amended: fewer than three fields is rejected with RequestLineParse and
\* gives no message; with more than three, the line is cut into its first two
\* fields and the rest: after a Method the rest is no Version and the decode
\* fails with the version error, after a Version the rest, spaces included,
\* is the reason phrase of the Response and the line is not rejected.
C6_FewerThanThreeRejected ==
    (LinesRead /\ HeadersWellFormed)
    => LET f == SplitAll(dparts.start)
       IN  /\ Len(f) < 3 => (~dres.ok /\ dres.err = "RequestLineParse" /\ dres.msg = NoMsg)
           /\ (Len(f) > 3 /\ f[1] \in MethodTokens)
                => (~dres.ok /\ dres.err = "InvalidVersion")
           /\ (Len(f) > 3 /\ f[1] \in VersionTokens)
                => /\ dres.err \notin {"RequestLineParse", "InvalidVersion"}
                   /\ dres.ok => /\ dres.msg.kind = "Response"
                                 /\ dres.msg.message = JoinFields(SubSeq(f, 3, Len(f)))

C6_Witness ==
    /\ LinesRead /\ HeadersWellFormed
    /\ dparts.start = <<"G", "E", "T", " ", "/">>
    /\ dres.err = "RequestLineParse"

\* C7: a three-field start line is classified by its first field alone: a
\* Method token gives a Request of the three fields (or an error of the
\* request path, never a Response), a Version token a Response of the three
\* fields, any other first field the start-line failure.
C7_ClassifiedByFirstField ==
    (LinesRead /\ HeadersWellFormed /\ Len(SplitAll(dparts.start)) = 3)
    => LET f == SplitAll(dparts.start)
           m == dres.msg
       IN  /\ f[1] \in MethodTokens
                => IF dres.ok
                   THEN /\ m.kind = "Request"
                        /\ MethodDisplay(m.method) = f[1]
                        /\ m.resource = f[2]
                        /\ VersionDisplay(m.version) = f[3]
                   ELSE dres.err \in {"InvalidVersion", "ParseIntError", "UnexpectedEof"}
           /\ f[1] \in VersionTokens
                => IF dres.ok
                   THEN /\ m.kind = "Response"
                        /\ VersionDisplay(m.version) = f[1]
                        /\ ToDecimal(m.code) = f[2]
                        /\ m.message = f[3]
                   ELSE dres.err \in {"ParseIntError", "UnexpectedEof"}
           /\ f[1] \notin MethodTokens \cup VersionTokens
                => (~dres.ok /\ dres.err = "RequestLineParse")

C7_Witness ==
    /\ LinesRead
    /\ dparts.start = <<"H", "T", "T", "P", "/", "1", ".", "1", " ", "2", "0", "0", " ", "O",
            "K">>
    /\ dres.ok
    /\ dres.msg.kind = "Response"

\* C8: a header line without colon-space makes the decode fail with Header
\* and no message; in a decoded message every header line read was split at
\* its first colon-space, the part before it being a header name and the part
\* after it the value of the last line with that name.
C8_HeaderSplitAtFirstColonSpace ==
    LinesRead
    => LET h == dparts.hdrs
       IN  /\ (\E i \in 1..Len(h) : ~HasColonSpace(h[i]))
                => (~dres.ok /\ dres.err = "Header" /\ dres.msg = NoMsg)
           /\ dres.ok
                => /\ DOMAIN dres.msg.headers = {NameOf(h[i]) : i \in 1..Len(h)}
                   /\ \A i \in 1..Len(h) :
                        (\A j \in (i + 1)..Len(h) : NameOf(h[j]) # NameOf(h[i]))
                            => dres.msg.headers[NameOf(h[i])] = ValueOf(h[i])

C8_Witness ==
    /\ LinesRead
    /\ dres.ok
    /\ \E i \in 1..Len(dparts.hdrs) : dparts.hdrs[i] = <<"a", ":", " ", "b", ":", " ", "c">>
    /\ dres.msg.headers[<<"a">>] = <<"b", ":", " ", "c">>

\* C9: when the stream ends after a whole start line and before a blank line,
\* no Message is built from the cut-off header block: the decode fails (the
\* claim names the failure: ConnectionClosed).
C9_CutOffHeaderBlockGivesNoMessage ==
    (LinesRead /\ (dparts.end = "eof" \/ (dparts.end = "eofnonl" /\ dparts.hdrs # <<>>)))
    => (~dres.ok /\ dres.msg = NoMsg)

\* the start line is one that Message::parse takes for a Request or a Response
StartLineDecodes ==
    LET f == SplitN3(dparts.start)
    IN  /\ Len(f) = 3
        /\ \/ f[1] \in MethodTokens /\ f[3] \in VersionTokens
           \/ f[1] \in VersionTokens /\ ParseU32(f[2]).ok

\* the header lines named Content-Length, and the last of them
LengthLines == {i \in 1..Len(dparts.hdrs) : NameOf(dparts.hdrs[i]) = ContentLength}
DeclaredLength ==
    ValueOf(dparts.hdrs[CHOOSE i \in LengthLines : \A j \in LengthLines : j <= i])

\* the bytes the stream holds after the header block
BodyAvailable == IF dparts.end = "blank" THEN dparts.tail ELSE <<>>

\* C18: when the stream ends before the Content-Length bytes of the body are
\* there, the decode fails with the I/O error of read_exact: no message is
\* returned, the failure is not ConnectionClosed, and the connection loop
\* takes it to the error outcome.
C18_BodyCutShortIsIoError ==
    (/\ LinesRead /\ HeadersWellFormed /\ StartLineDecodes
     /\ LengthLines # {}
     /\ ParseUsize(DeclaredLength).ok
     /\ ParseUsize(DeclaredLength).val > Len(BodyAvailable))
    => /\ ~dres.ok
       /\ dres.err = "UnexpectedEof"
       /\ dres.msg = NoMsg
       /\ dres.err \notin MessageParseErrors
       /\ OnDecodeError(dres.err) = [pc |-> "ClosedWithError", error |-> "UnexpectedEof"]

C18_Witness ==
    /\ LinesRead
    /\ dparts.start = <<"H", "T", "T", "P", "/", "1", ".", "1", " ", "2", "0", "0", " ", "O",
            "K">>
    /\ dparts.hdrs = <<<<"C", "o", "n", "t", "e", "n", "t", "-", "L", "e", "n", "g", "t", "h",
            ":", " ", "9">>>>
    /\ dparts.end = "blank"
    /\ dparts.tail = <<"h", "i", "!">>
    /\ dres.err = "UnexpectedEof"

\* C20: the header mapping of a decoded message has exactly one entry for
\* each distinct name received, names that differ only in case being
\* distinct, and the value of a name is that of the last line carrying it.
C20_OneEntryPerNameLastWins ==
    (LinesRead /\ dres.ok)
    => LET h == dparts.hdrs
           names == {NameOf(h[i]) : i \in 1..Len(h)}
           last(n) == CHOOSE i \in 1..Len(h) :
                        NameOf(h[i]) = n /\ \A j \in 1..Len(h) : NameOf(h[j]) = n => j <= i
       IN  /\ Cardinality(DOMAIN dres.msg.headers) = Cardinality(names)
           /\ \A n \in names :
                /\ n \in DOMAIN dres.msg.headers
                /\ dres.msg.headers[n] = ValueOf(h[last(n)])
           /\ (<<"c", "o", "n", "t", "e", "n", "t", "-", "l", "e", "n", "g", "t",
                   "h">> \in names /\ ContentLength \notin names)
                => dres.msg.body = <<>>

C20_Witness ==
    /\ LinesRead
    /\ dres.ok
    /\ dparts.hdrs = <<<<"H", "o", "s", "t", ":", " ", "h">>, <<"H", "o", "s", "t", ":", " ",
            "g">>>>
    /\ DOMAIN dres.msg.headers = {<<"H", "o", "s", "t">>}
    /\ dres.msg.headers[<<"H", "o", "s", "t">>] = <<"g">>

(***************************************************************************)
(* The round trip: a Request or Response value is serialized and the       *)
(* bytes are deserialized                                                  *)
(***************************************************************************)

MaxHeaders == 2

RtNames == {<<"H", "o", "s", "t">>, <<"C", "o", "n", "t", "e", "n", "t", "-", "L", "e", "n",
        "g", "t", "h">>, <<"X", ":", " ", "y">>, <<"A">>}
RtValuesOf(name) ==
    CASE name = <<"C", "o", "n", "t", "e", "n", "t", "-", "L", "e", "n", "g", "t",
            "h">> -> {<<"2">>, <<"0">>}
      [] name = <<"A">> -> {<<"b", ":", " ", "c">>}
      [] OTHER -> {<<"h">>}

RtHeaderMaps ==
    UNION {{h \in [S -> {<<"2">>, <<"0">>, <<"b", ":", " ", "c">>,
            <<"h">>}] : \A n \in S : h[n] \in RtValuesOf(n)} :
            S \in {T \in SUBSET RtNames : Cardinality(T) <= MaxHeaders}}

RtBodies == {<<>>, <<"h", "i">>, <<"xFF", "\n">>}

RtRequests ==
    [kind : {"Request"}, method : Methods, resource : {<<"/">>, <<>>, <<"/", "a", " ", "b">>,
            <<"/", "a", "\n", "b">>},
     version : Versions, headers : RtHeaderMaps, body : RtBodies]

RtResponses ==
    [kind : {"Response"}, version : Versions, code : {200, 404},
     message : {<<"O", "K">>, <<"N", "o", "t", " ", "F", "o", "u", "n", "d">>, <<>>, <<"a",
             "\n", "b">>}, headers : RtHeaderMaps, body : RtBodies]

InitRoundTrip ==
    /\ rtv \in RtRequests \cup RtResponses
    /\ rtbytes = <<>>
    /\ rtback = NoResult
    /\ ConnIdle /\ DecIdle /\ FnIdle /\ StrIdle /\ SrvIdle

\* value.serialize(), the header map iterated in one of its orders
RtSerialize ==
    /\ rtv # NoMsg
    /\ rtbytes = <<>>
    /\ \E order \in Orders(DOMAIN rtv.headers) : rtbytes' = MessageSerialize(rtv, order)
    /\ UNCHANGED <<rtv, rtback, connVars, decVars, fnVars, strVars, srvVars>>

\* Message::deserialize on a reader over the serialized bytes
RtDeserialize ==
    /\ rtbytes # <<>>
    /\ rtback = NoResult
    /\ rtback' = Deserialize(rtbytes)
    /\ UNCHANGED <<rtv, rtbytes, connVars, decVars, fnVars, strVars, srvVars>>

NextRoundTrip == RtSerialize \/ RtDeserialize

SpecRoundTrip == InitRoundTrip /\ [][NextRoundTrip]_vars

HasByte(s, c) == \E i \in 1..Len(s) : s[i] = c

\* the value survives the wire framing: the body is what Content-Length
\* says (as Request::new and Response::new build it), the resource has no
\* space and no line feed, the reason phrase no line feed, a header name no
\* colon-space and no line feed, a header value no line feed
RtFramingSafe(v) ==
    /\ IF ContentLength \in DOMAIN v.headers
       THEN /\ ParseUsize(v.headers[ContentLength]).ok
            /\ ParseUsize(v.headers[ContentLength]).val = Len(v.body)
       ELSE v.body = <<>>
    /\ v.kind = "Request" => (~HasByte(v.resource, SP) /\ ~HasByte(v.resource, LF))
    /\ v.kind = "Response" => ~HasByte(v.message, LF)
    /\ \A n \in DOMAIN v.headers :
         /\ ~HasColonSpace(n) /\ ~HasByte(n, LF) /\ ~HasByte(v.headers[n], LF)

\* C4 as stated: deserializing the serialization of any Request or Response
\* value gives back a message equal to it.
C4_RoundTripEveryValue ==
    rtback # NoResult => (rtback.ok /\ rtback.msg = rtv)

\* C4 amended: the round trip gives back an equal message, and leaves no
\* byte unread, for the values that survive the framing (RtFramingSafe).
C4_RoundTripFramingSafe ==
    (rtback # NoResult /\ RtFramingSafe(rtv))
    => (rtback.ok /\ rtback.msg = rtv /\ rtback.rest = <<>>)

C4_Witness ==
    /\ rtback.ok
    /\ rtback.msg = rtv
    /\ rtv.kind = "Response"
    /\ rtv.message = <<"N", "o", "t", " ", "F", "o", "u", "n", "d">>
    /\ rtv.body = <<"xFF", "\n">>
    /\ Cardinality(DOMAIN rtv.headers) = 2

\* the start line of a value, without its line ending
StartLineOf(v) ==
    IF v.kind = "Request"
    THEN MethodDisplay(v.method) \o <<SP>> \o v.resource \o <<SP>> \o VersionDisplay(v.version)
    ELSE VersionDisplay(v.version) \o <<SP>> \o ToDecimal(v.code) \o <<SP>> \o v.message

\* bytes is the start line, then the entries of the header mapping one after
\* the other, each once, then a blank line, then the body
RECURSIVE EmitsEntries(_, _, _)
EmitsEntries(bytes, v, left) ==
    IF left = {}
    THEN bytes = <<"\r", "\n">> \o v.body
    ELSE \E n \in left :
           LET line == n \o <<":", " ">> \o v.headers[n] \o <<"\r", "\n">>
           IN  /\ IsPrefix(line, bytes)
               /\ EmitsEntries(Skip(bytes, Len(line)), v, left \ {n})

EmittedAsIs(bytes, v) ==
    LET first == StartLineOf(v) \o <<"\r", "\n">>
    IN  /\ IsPrefix(first, bytes)
        /\ EmitsEntries(Skip(bytes, Len(first)), v, DOMAIN v.headers)

\* C19: the step that serializes a value writes its start line and CRLF,
\* every header entry once as name, colon-space, value, CRLF, a blank CRLF
\* and the body as it is, whatever Content-Length says or whether it is
\* there; no step changes the value.
C19_SerializeEmitsValueAsIs ==
    [][/\ rtv' = rtv
       /\ (rtbytes = <<>> /\ rtbytes' # <<>>) => EmittedAsIs(rtbytes', rtv)]_vars

C19_Witness ==
    /\ rtv.kind = "Response"
    /\ rtv.headers = [n \in {ContentLength} |-> <<"2">>]
    /\ rtv.body = <<>>
    /\ rtbytes = <<"H", "T", "T", "P", "/", "1", ".", "1", " ", "2", "0", "0", " ", "O", "K",
            "\r", "\n", "C", "o", "n", "t", "e", "n", "t", "-", "L", "e", "n", "g", "t", "h",
            ":", " ", "2", "\r", "\n", "\r", "\n">>

(***************************************************************************)
(* The tokens: from_str of Method and of Version on one string             *)
(***************************************************************************)

MaxPad == 2

Spaces(k) == [i \in 1..k |-> SP]

\* strings that are no token of their own
NearMisses == {
    <<>>,
    <<"g", "e", "t">>,
    <<"G", "e", "t">>,
    <<"h", "t", "t", "p", "/", "1", ".", "1">>,
    <<"H", "T", "T", "P", "/", "1", ".", "0">>,
    <<"H", "T", "T", "P", "/", "1">>,
    <<"H", "T", "T", "P", "/", "2", ".", "0">>,
    <<"H", "T", "T", "P">>,
    <<"G", "E", "T", "/">>,
    <<"B", "R", "E", "W">> }

\* the canonical tokens, and each of them padded, cut, doubled and followed
\* by a carriage return
TokenInputs ==
    LET canon == {MethodDisplay(m) : m \in Methods} \cup {VersionDisplay(v) : v \in Versions}
    IN  canon
        \cup {Spaces(k) \o t : k \in 1..MaxPad, t \in canon}
        \cup {t \o Spaces(k) : k \in 1..MaxPad, t \in canon}
        \cup {SubSeq(t, 1, Len(t) - 1) : t \in canon}
        \cup {t \o <<CR>> : t \in canon}
        \cup {t \o t : t \in canon}
        \cup NearMisses

InitTokens ==
    /\ fin \in [s : TokenInputs]
    /\ fout = <<>>
    /\ ConnIdle /\ DecIdle /\ RtIdle /\ StrIdle /\ SrvIdle

\* s.parse::<Method>()
MethodParse ==
    /\ fin # <<>>
    /\ fout = <<>>
    /\ fout' = [fn |-> "Method", res |-> MethodFromStr(fin.s)]
    /\ UNCHANGED <<fin, connVars, decVars, rtVars, strVars, srvVars>>

\* s.parse::<Version>()
VersionParse ==
    /\ fin # <<>>
    /\ fout = <<>>
    /\ fout' = [fn |-> "Version", res |-> VersionFromStr(fin.s)]
    /\ UNCHANGED <<fin, connVars, decVars, rtVars, strVars, srvVars>>

NextTokens == MethodParse \/ VersionParse

SpecTokens == InitTokens /\ [][NextTokens]_vars

\* the canonical token of each variant, as the protocol writes it
TokenOfMethod ==
    [Get |-> <<"G", "E", "T">>, Head |-> <<"H", "E", "A", "D">>, Post |-> <<"P", "O", "S",
            "T">>, Put |-> <<"P", "U", "T">>, Delete |-> <<"D", "E", "L", "E", "T", "E">>,
     Connect |-> <<"C", "O", "N", "N", "E", "C", "T">>, Options |-> <<"O", "P", "T", "I", "O",
             "N", "S">>, Trace |-> <<"T", "R", "A", "C", "E">>, Patch |-> <<"P", "A", "T",
             "C", "H">>]
TokenOfVersion == [Http11 |-> <<"H", "T", "T", "P", "/", "1", ".", "1">>, Http2 |-> <<"H",
        "T", "T", "P", "/", "2">>, Http3 |-> <<"H", "T", "T", "P", "/", "3">>]

\* C15: the canonical token of every variant of Method and of Version is
\* what Display writes and parses to that variant; a parse succeeds only on
\* a string that is, byte for byte, the canonical token of the variant it
\* gives, and every other string is rejected with the parse error.
C15_TokenInverseLaw ==
    /\ DOMAIN TokenOfMethod = Methods
    /\ DOMAIN TokenOfVersion = Versions
    /\ \A m \in Methods : MethodDisplay(m) = TokenOfMethod[m]
    /\ \A v \in Versions : VersionDisplay(v) = TokenOfVersion[v]
    /\ (fout # <<>> /\ fout.fn = "Method")
         => /\ \A m \in Methods : fin.s = TokenOfMethod[m] => fout.res = [ok |-> TRUE, val |-> m]
            /\ fout.res.ok => (fout.res.val \in Methods /\ fin.s = TokenOfMethod[fout.res.val])
            /\ ~fout.res.ok => fout.res.val = "InvalidMethod"
    /\ (fout # <<>> /\ fout.fn = "Version")
         => /\ \A v \in Versions : fin.s = TokenOfVersion[v] => fout.res = [ok |-> TRUE, val |-> v]
            /\ fout.res.ok => (fout.res.val \in Versions /\ fin.s = TokenOfVersion[fout.res.val])
            /\ ~fout.res.ok => fout.res.val = "InvalidVersion"

C15_Witness ==
    /\ fout # <<>>
    /\ fout.fn = "Version"
    /\ fin.s = <<"H", "T", "T", "P", "/", "3">>
    /\ fout.res = [ok |-> TRUE, val |-> "Http3"]

(***************************************************************************)
(* The file-serving constructors of Response on one opened file            *)
(***************************************************************************)

MaxFileLen == 11

\* the codes of the status table, and codes it does not have
TableCodes ==
    {100, 101, 102, 103, 200, 201, 202, 203, 204, 205, 206, 207, 208, 226,
     300, 301, 302, 303, 304, 307, 308,
     400, 401, 403, 404, 405, 406, 407, 408, 409, 410, 411, 412, 413, 414, 415, 416, 417,
     418, 421, 422, 423, 424, 426, 428, 429, 431, 451,
     500, 501, 502, 503, 504, 505, 506, 507, 508, 510, 511}
OtherCodes == {0, 99, 402, 600}

\* file contents of every length up to MaxFileLen: text, and bytes that are
\* no text
FileDatas ==
    {[i \in 1..n |-> "a"] : n \in 0..MaxFileLen}
        \cup {[i \in 1..n |-> IF i % 2 = 1 THEN XFF ELSE LF] : n \in 1..MaxFileLen}

InitServe ==
    /\ fin \in [version : Versions, code : TableCodes \cup OtherCodes,
                 file : {File(d) : d \in FileDatas} \cup {Dir}]
    /\ fout = <<>>
    /\ ConnIdle /\ DecIdle /\ RtIdle /\ StrIdle /\ SrvIdle

\* Response::serve_file_with_code(version, code, &mut file)
ServeFileWithCodeCall ==
    /\ fin # <<>>
    /\ fout = <<>>
    /\ fout' = [fn |-> "serve_file_with_code", code |-> fin.code,
                res |-> ServeFileWithCode(fin.version, fin.code, fin.file)]
    /\ UNCHANGED <<fin, connVars, decVars, rtVars, strVars, srvVars>>

\* Response::serve_file(version, &mut file)
ServeFileCall ==
    /\ fin # <<>>
    /\ fout = <<>>
    /\ fout' = [fn |-> "serve_file", code |-> 200, res |-> ServeFile(fin.version, fin.file)]
    /\ UNCHANGED <<fin, connVars, decVars, rtVars, strVars, srvVars>>

NextServe == ServeFileWithCodeCall \/ ServeFileCall

SpecServe == InitServe /\ [][NextServe]_vars

\* C16: serve_file_with_code on a file builds a Response with the code and
\* version given, the reason phrase of the status table for the code ("Not
\* Found" for 404, "OK" for 200), Content-Length as its only header, equal
\* to the decimal byte length of the file, and the bytes of the file as body.
C16_ServeFileCarriesPhraseAndLength ==
    (fout # <<>> /\ fin.file.kind = "file")
    => LET r == fout.res.msg
       IN  /\ fout.res.ok
           /\ r.kind = "Response"
           /\ r.code = fout.code
           /\ r.version = fin.version
           /\ ResponseMessage(r.code).some => r.message = ResponseMessage(r.code).val
           /\ r.code \in TableCodes => ResponseMessage(r.code).some
           /\ r.code = 404 => r.message = <<"N", "o", "t", " ", "F", "o", "u", "n", "d">>
           /\ r.code = 200 => r.message = <<"O", "K">>
           /\ DOMAIN r.headers = {ContentLength}
           /\ r.headers[ContentLength] = ToDecimal(Len(fin.file.data))
           /\ DecValue(r.headers[ContentLength]) = Len(r.body)
           /\ r.body = fin.file.data

C16_Witness ==
    /\ fout # <<>>
    /\ fout.fn = "serve_file_with_code"
    /\ fout.res.ok
    /\ fout.res.msg.code = 404
    /\ fout.res.msg.message = <<"N", "o", "t", " ", "F", "o", "u", "n", "d">>
    /\ fout.res.msg.headers[ContentLength] = <<"1", "1">>
    /\ Len(fout.res.msg.body) = 11

(***************************************************************************)
(* Consecutive decodes: messages are serialized one after the other onto   *)
(* a stream, the peer closes, and read_obj is called on the one buffered   *)
(* reader of the connection until the stream is used up or a decode fails  *)
(***************************************************************************)

MaxStream == 2

Req(method, resource, version, headers, body) ==
    [kind |-> "Request", method |-> method, resource |-> resource, version |-> version,
     headers |-> headers, body |-> body]
Resp(version, code, message, headers, body) ==
    [kind |-> "Response", version |-> version, code |-> code, message |-> message,
     headers |-> headers, body |-> body]
OneHeader(name, value) == [n \in {name} |-> value]

\* values whose Content-Length agrees with the body
StreamConsistent == {
    Req("Get", <<"/">>, "Http11", EmptyHeaders, <<>>),
    Req("Post", <<"/", "a">>, "Http2", HeadersInsert(OneHeader(<<"H", "o", "s", "t">>,
            <<"h">>), ContentLength, <<"2">>), <<"h", "i">>),
    Req("Get", <<"/">>, "Http11", OneHeader(ContentLength, <<"0">>), <<>>),
    Resp("Http11", 200, <<"O", "K">>, OneHeader(ContentLength, <<"2">>), <<"xFF", "\n">>),
    Resp("Http3", 404, <<"N", "o", "t", " ", "F", "o", "u", "n", "d">>, EmptyHeaders, <<>>),
    Req("Get", <<"/", "a", " ", "b">>, "Http11", EmptyHeaders, <<>>),
    Resp("Http11", 200, <<"a", "\n", "b">>, EmptyHeaders, <<>>),
    Req("Get", <<"/">>, "Http11", OneHeader(<<"X", ":", " ", "y">>, <<"h">>), <<>>) }

\* values whose Content-Length does not: a body without the header, and a
\* header that counts more bytes than the body has
StreamInconsistent == {
    Req("Put", <<"/">>, "Http11", EmptyHeaders, <<"h", "i">>),
    Resp("Http11", 200, <<"O", "K">>, OneHeader(ContentLength, <<"2">>), <<>>) }

StreamValues == StreamConsistent \cup StreamInconsistent

InitStream ==
    /\ smsgs \in UNION {[1..n -> StreamValues] : n \in 1..MaxStream}
    /\ sent = 0
    /\ wire = <<>>
    /\ results = <<>>
    /\ ConnIdle /\ DecIdle /\ RtIdle /\ FnIdle /\ SrvIdle

\* the next message is serialized and its bytes are put on the stream
StreamSend ==
    /\ sent < Len(smsgs)
    /\ \E order \in Orders(DOMAIN smsgs[sent + 1].headers) :
         wire' = wire \o MessageSerialize(smsgs[sent + 1], order)
    /\ sent' = sent + 1
    /\ UNCHANGED <<smsgs, results, connVars, decVars, rtVars, fnVars, srvVars>>

\* the loop is still reading: no read_obj has failed
NoDecodeFailed == IF results = <<>> THEN TRUE ELSE results[Len(results)].ok

\* what one read_obj on the reader gives, and the bytes it took from it
ReadResult(r, before) ==
    [ok |-> r.ok, err |-> r.err, msg |-> r.msg,
     taken |-> IF r.ok THEN SubSeq(before, 1, Len(before) - Len(r.rest)) ELSE <<>>]

\* read_obj, a plausible slip: the reader is buffered anew for each decode,
\* and the bytes read ahead by the last one are lost with its buffer
StreamReadFreshBuffer ==
    /\ smsgs # <<>>
    /\ sent = Len(smsgs)
    /\ wire # <<>>
    /\ NoDecodeFailed
    /\ LET r == Deserialize(wire)
       IN  /\ results' = Append(results, ReadResult(r, wire))
           /\ wire' = <<>>
    /\ UNCHANGED <<smsgs, sent, connVars, decVars, rtVars, fnVars, srvVars>>

\* reader.read_obj() on the BufReader that HttpStream::new made once for the
\* connection: what a decode leaves unread is there for the next one
StreamRead ==
    /\ smsgs # <<>>
    /\ sent = Len(smsgs)
    /\ wire # <<>>
    /\ NoDecodeFailed
    /\ LET r == Deserialize(wire)
       IN  /\ results' = Append(results, ReadResult(r, wire))
           /\ wire' = r.rest
    /\ UNCHANGED <<smsgs, sent, connVars, decVars, rtVars, fnVars, srvVars>>

NextStream == StreamSend \/ StreamRead

SpecStream == InitStream /\ [][NextStream]_vars

\* Content-Length is there and is the length of the body, or is not there
\* and the body is empty
LengthConsistent(v) ==
    IF ContentLength \in DOMAIN v.headers
    THEN /\ ParseUsize(v.headers[ContentLength]).ok
         /\ ParseUsize(v.headers[ContentLength]).val = Len(v.body)
    ELSE v.body = <<>>

\* every decode so far gave the message sent at its place
DecodedInOrder ==
    /\ Len(results) <= Len(smsgs)
    /\ \A k \in 1..Len(results) : results[k].ok /\ results[k].msg = smsgs[k]
    /\ (sent = Len(smsgs) /\ wire = <<>>) => Len(results) = Len(smsgs)

\* a decode that gave a message took from the stream the start line, the
\* header lines, the blank line and the body of that message, no more
TakesOneMessage ==
    \A k \in 1..Len(results) :
        results[k].ok
        => /\ EmittedAsIs(results[k].taken, results[k].msg)
           /\ ContentLength \notin DOMAIN results[k].msg.headers => results[k].msg.body = <<>>

\* the bytes after a message sent without Content-Length are the beginning
\* of the next start line: the body sent is not in the message decoded, and
\* the next decode starts with it and, the message behind it being well
\* framed, finds no start line there
BodyWithoutLengthIsNextLine ==
    \A k \in 1..Len(results) :
        (/\ results[k].ok
         /\ \A j \in 1..(k - 1) : RtFramingSafe(smsgs[j])
         /\ smsgs[k] = Req("Put", <<"/">>, "Http11", EmptyHeaders, <<"h", "i">>))
        => /\ results[k].msg = [smsgs[k] EXCEPT !.body = <<>>]
           /\ IsPrefix(<<"h", "i">>, wire) \/ Len(results) > k
           /\ (Len(results) > k /\ (k < Len(smsgs) => RtFramingSafe(smsgs[k + 1])))
                => (~results[k + 1].ok /\ results[k + 1].err = "RequestLineParse")

\* C22 as stated: each decode takes one message off the stream and no more,
\* so the serializations of messages with consistent Content-Length, one
\* after the other, decode to those messages in order; bytes after a message
\* without Content-Length are read as the next start line.
C22_ConsecutiveDecodesConsistent ==
    /\ TakesOneMessage
    /\ BodyWithoutLengthIsNextLine
    /\ (\A k \in 1..Len(smsgs) : LengthConsistent(smsgs[k])) => DecodedInOrder

\* C22 amended: the same, the messages being those that survive the framing
\* (RtFramingSafe: consistent Content-Length, no space or line feed in the
\* resource, no line feed in the reason phrase or in a header, no
\* colon-space in a header name).
C22_ConsecutiveDecodesFramingSafe ==
    /\ TakesOneMessage
    /\ BodyWithoutLengthIsNextLine
    /\ (\A k \in 1..Len(smsgs) : RtFramingSafe(smsgs[k])) => DecodedInOrder

C22_Witness ==
    /\ Len(smsgs) = 2
    /\ smsgs[1].body = <<"xFF", "\n">>
    /\ smsgs[2].kind = "Request"
    /\ smsgs[2].body = <<"h", "i">>
    /\ Len(results) = 2
    /\ results[1].msg = smsgs[1]
    /\ results[2].msg = smsgs[2]
    /\ wire = <<>>

(***************************************************************************)
(* The server: the two accept loops of main and the connection tasks they  *)
(* spawn, every task taking its steps in any interleaving with the others  *)
(***************************************************************************)

MaxConns == 2

\* the files under the root: read by every connection, written by none
ServerFiles == Without(BaseFs, Path(<<".", "e", "r", "r", "o", "r", "s", "/", "4", "0", "4",
        ".", "h", "t", "m", "l">>))

\* a peer: the listener it connects to, whether its TLS handshake succeeds
\* (https only), and the bytes it sends before it closes
ServerClients == {
    [via |-> "http", hello |-> TRUE, bytes |-> <<"G", "E", "T", " ", "/", "a", " ", "H", "T",
            "T", "P", "/", "1", ".", "1", "\r", "\n", "H", "o", "s", "t", ":", " ", "h", "\r",
            "\n", "\r", "\n">>],
    [via |-> "http", hello |-> TRUE, bytes |-> <<"G", "E", "T", " ", "/", "\r", "\n", "\r",
            "\n">>],
    [via |-> "https", hello |-> TRUE, bytes |-> <<"G", "E", "T", " ", "/", "x", " ", "H", "T",
            "T", "P", "/", "1", ".", "1", "\r", "\n", "H", "o", "s", "t", ":", " ", "h", "\r",
            "\n", "\r", "\n">>],
    [via |-> "https", hello |-> FALSE, bytes |-> <<>>] }

\* the [http] and [https] tables of the configuration: each listener is
\* there or not
ListenerConfigs ==
    {[http |-> "Accepting", https |-> "Accepting"], [http |-> "Accepting", https |-> "Absent"]}

NotConnected ==
    [pc |-> "NotConnected", inbuf |-> <<>>, msg |-> NoMsg, reply |-> NoMsg, written |-> <<>>,
     decoded |-> <<>>, error |-> "", closedBefore |-> 0]

\* the states in which a connection task is over: handle_connection has
\* returned, the task has panicked, or the runtime was shut down under it
TaskOver == {"ClosedGracefully", "ClosedWithError", "Panicked", "Aborted"}

InitServer ==
    /\ clients \in UNION {[1..n -> ServerClients] : n \in 1..MaxConns}
    /\ listeners \in ListenerConfigs
    /\ conns = [i \in 1..Len(clients) |-> NotConnected]
    /\ ConnIdle /\ DecIdle /\ RtIdle /\ FnIdle /\ StrIdle

\* socket.accept().await? gives the connection of the next peer in line and
\* the loop spawns its task; the https task begins with the TLS handshake
Accept(i) ==
    /\ conns[i].pc = "NotConnected"
    /\ listeners[clients[i].via] = "Accepting"
    /\ \A j \in 1..(i - 1) :
         conns[j].pc # "NotConnected" \/ listeners[clients[j].via] # "Accepting"
    /\ conns' = [conns EXCEPT ![i] =
            [NotConnected EXCEPT
                !.pc = IF clients[i].via = "https" THEN "Handshake" ELSE "AwaitingMessage",
                !.inbuf = clients[i].bytes,
                !.closedBefore = Cardinality({j \in DOMAIN conns : conns[j].pc \in TaskOver})]]
    /\ UNCHANGED <<clients, listeners, connVars, decVars, rtVars, fnVars, strVars>>

\* socket.accept().await? fails: the accept loop returns the error; when no
\* accept loop is left, join! in main completes, main returns and the
\* runtime drops the connection tasks still running
AcceptFails(l) ==
    /\ listeners[l] = "Accepting"
    /\ listeners' = [listeners EXCEPT ![l] = "Failed"]
    /\ conns' = IF \E k \in DOMAIN listeners : k # l /\ listeners[k] = "Accepting"
                THEN conns
                ELSE [i \in DOMAIN conns |->
                        IF conns[i].pc \in TaskOver \cup {"NotConnected"} THEN conns[i]
                        ELSE [conns[i] EXCEPT !.pc = "Aborted"]]
    /\ UNCHANGED <<clients, connVars, decVars, rtVars, fnVars, strVars>>

\* the match on what handle_connection returned, a plausible slip: the
\* error is passed on with `?` and ends the accept loop
OnConnectionReturnPropagates(via, outcome, ls) ==
    IF outcome = "ClosedWithError" THEN [ls EXCEPT ![via] = "Failed"] ELSE ls

\* the match on what handle_connection returned, in the spawned task: Ok is
\* dropped, Err is printed; the accept loop is not told
OnConnectionReturn(via, outcome, ls) ==
    IF outcome = "ClosedWithError" THEN ls ELSE ls

\* a step of connection task i that leaves it as c
TaskStep(i, c) ==
    /\ conns' = [conns EXCEPT ![i] = c]
    /\ listeners' = IF c.pc \in Terminal
                    THEN OnConnectionReturn(clients[i].via, c.pc, listeners)
                    ELSE listeners
    /\ UNCHANGED <<clients, connVars, decVars, rtVars, fnVars, strVars>>

\* acceptor.accept(stream).await.unwrap(): a failed handshake panics the task
TlsAccept(i) ==
    /\ conns[i].pc = "Handshake"
    /\ TaskStep(i, [conns[i] EXCEPT
            !.pc = IF clients[i].hello THEN "AwaitingMessage" ELSE "Panicked"])

\* reader.read_obj() and the match on its result, in task i
ConnReadObj(i) ==
    /\ conns[i].pc = "AwaitingMessage"
    /\ LET r == Deserialize(conns[i].inbuf)
       IN  IF r.ok
           THEN TaskStep(i, [conns[i] EXCEPT !.pc = "Dispatching", !.msg = r.msg,
                                !.inbuf = r.rest, !.decoded = Append(@, r.msg)])
           ELSE TaskStep(i, [conns[i] EXCEPT !.pc = OnDecodeError(r.err).pc,
                                !.error = OnDecodeError(r.err).error,
                                !.inbuf = r.rest])

\* the reply of the policy with the configuration of the task
ServerReply(m) ==
    IF m.kind = "Request" THEN CreateResponse(m, ServerFiles) ELSE Error(400, ServerFiles)

\* create_response(req, &config).await? / error(400, &config).await?, in task i
ConnDispatch(i) ==
    /\ conns[i].pc = "Dispatching"
    /\ LET r == ServerReply(conns[i].msg)
       IN  IF r.ok
           THEN TaskStep(i, [conns[i] EXCEPT !.pc = "Replying", !.reply = r.msg])
           ELSE TaskStep(i, [conns[i] EXCEPT !.pc = "ClosedWithError", !.error = r.err])

\* writer.write_obj(&response).await?, in task i
ConnWriteObj(i) ==
    /\ conns[i].pc = "Replying"
    /\ \E order \in Orders(DOMAIN conns[i].reply.headers) :
         LET raw == ResponseSerialize(conns[i].reply, order)
         IN  \E w \in WriteOutcomes(raw) :
               TaskStep(i, [conns[i] EXCEPT
                   !.pc = AfterWrite(w).pc,
                   !.error = IF w.ok THEN @ ELSE AfterWrite(w).error,
                   !.msg = IF w.ok THEN NoMsg ELSE @,
                   !.written = IF w.ok THEN Append(@, SubSeq(raw, 1, w.n)) ELSE @])

NextServer ==
    \/ \E i \in DOMAIN conns : Accept(i)
    \/ \E l \in DOMAIN listeners : AcceptFails(l)
    \/ \E i \in DOMAIN conns : TlsAccept(i)
    \/ \E i \in DOMAIN conns : ConnReadObj(i)
    \/ \E i \in DOMAIN conns : ConnDispatch(i)
    \/ \E i \in DOMAIN conns : ConnWriteObj(i)

SpecServer == InitServer /\ [][NextServer]_vars

\* the k-th decode of a stream of bytes read on its own
RECURSIVE NthDecode(_, _)
NthDecode(bytes, k) ==
    IF k = 1 THEN Deserialize(bytes) ELSE NthDecode(Deserialize(bytes).rest, k - 1)

\* what task i has decoded and written is what its own peer sent and the
\* replies to it, whatever the other tasks did
RepliesAreOwn(c, client) ==
    /\ \A k \in 1..Len(c.decoded) : c.decoded[k] = NthDecode(client.bytes, k).msg
    /\ Len(c.written) <= Len(c.decoded)
    /\ \A k \in 1..Len(c.written) :
         /\ ServerReply(c.decoded[k]).ok
         /\ \E order \in Orders(DOMAIN ServerReply(c.decoded[k]).msg.headers) :
              IsPrefix(c.written[k], ResponseSerialize(ServerReply(c.decoded[k]).msg, order))

\* C21: a step in which one connection task ends (handle_connection returns
\* Ok or Err, or the task panics) leaves every other connection and both
\* accept loops as they were; a step of one task changes no other task; and
\* every task decodes its own peer's bytes and writes the replies to them.
C21_ConnectionsIndependent ==
    [][/\ \A i \in DOMAIN conns :
            (conns[i].pc \notin TaskOver /\ conns'[i].pc \in TaskOver \ {"Aborted"})
            => /\ listeners' = listeners
               /\ \A j \in DOMAIN conns \ {i} : conns'[j] = conns[j]
       /\ \A i \in DOMAIN conns :
            (listeners' = listeners /\ conns'[i] # conns[i])
            => \A j \in DOMAIN conns \ {i} : conns'[j] = conns[j]
       /\ \A i \in DOMAIN conns : RepliesAreOwn(conns'[i], clients[i])]_vars

\* a connection ended in error, the accept loops went on, a connection
\* accepted after that got its reply and closed gracefully
C21_Witness ==
    /\ Len(clients) = 2
    /\ conns[1].pc = "ClosedWithError"
    /\ conns[2].closedBefore = 1
    /\ conns[2].pc = "ClosedGracefully"
    /\ Len(conns[2].written) = 1
    /\ \A l \in DOMAIN listeners : listeners[l] # "Failed"

====
